---- MODULE Spec2Model ----
(***************************************************************************)
(* State-machine model of the subtree container of go-subtree              *)
(* (type Subtree and its methods).  The model keeps two subtrees: "orig",  *)
(* created by NewTree, and "copy", created by Duplicate.  Every method is  *)
(* one action; its inputs are drawn from small sets.                       *)
(*                                                                         *)
(* Go values are modelled as follows.                                      *)
(*  - A chainhash.Hash is a non-empty sequence of integers: a leaf hash    *)
(*    is <<h>>, the zero hash is <<0>>, the coinbase placeholder is        *)
(*    <<255>>, and Hash256(l || r) is <<-1>> \o l \o r (prefix notation,   *)
(*    hence collision free).  A nil *chainhash.Hash is <<>>.               *)
(*  - A slice is its sequence of elements together with its capacity       *)
(*    (Nodes / capNodes).  No two subtrees ever share a backing array      *)
(*    (Duplicate allocates fresh arrays), so sequences are kept by value.  *)
(*  - Go indexes from 0, TLA+ sequences from 1: element i of a Go slice    *)
(*    is element i+1 of the sequence.                                      *)
(*  - uint64 arithmetic wraps; the model keeps the wrap-around at a        *)
(*    narrower width (UintBits bits).                                      *)
(***************************************************************************)
EXTENDS Integers, Sequences, FiniteSets, TLC

\* ------------------------------------------------------------------ bounds
MaxHeight == 2      \* NewTree is called with height 0..MaxHeight
NumHashes == 2      \* leaf hashes are <<1>> .. <<NumHashes>>
MaxOps    == 3      \* number of method calls in one run
UintBits  == 6      \* width of the unsigned aggregates in the model
MaxLeaves == 8      \* the Merkle builder is given 0..MaxLeaves leaves
MaxWorkers == 2     \* a layer is cut into 1..MaxWorkers ranges
ParallelThreshold == 4  \* leaves from which on the builder works in parallel
                    \* (1024 in the spec, scaled with the leaf count)
MaxBackingOps == 3  \* calls made on the heap-backed and the mmap-backed subtree
MaxDataNodes == 3   \* leaves of the subtree a Data is bound to
MaxTxs == 4         \* transactions in the stream a Data is decoded from
MaxInputs == 3      \* inputs of the vector a TxInpoints is made of
MaxStores == 2      \* newFileBackedMmapNodes is called at most MaxStores times
MaxClosers == 2     \* goroutines that call Close
ProofHeight == 3    \* the subtrees proofs are asked of have height 0..ProofHeight
ReaderSize == 64   \* bytes the buffered reader of a decoder holds (the
                    \* decoders ask for 16 MiB; the model keeps the layout of
                    \* the stream and scales the buffer)

\* ------------------------------------------------------------------ hashes
NilHash == <<>>
ZeroHash == <<0>>
CoinbasePlaceholder == <<255>>
LeafHashes == { <<h>> : h \in 1..NumHashes }
Hash256(l, r) == <<-1>> \o l \o r

U64(x) == x % (2 ^ UintBits)

\* ------------------------------------------------------- power-of-two help
RECURSIVE CeilPowerOfTwoFrom(_, _)
CeilPowerOfTwoFrom(p, n) == IF p >= n THEN p ELSE CeilPowerOfTwoFrom(2 * p, n)

CeilPowerOfTwo(n) == CeilPowerOfTwoFrom(1, n)

IsPowerOfTwo(n) == n > 0 /\ CeilPowerOfTwo(n) = n

RECURSIVE Log2Ceil(_)
Log2Ceil(n) == IF n <= 1 THEN 0 ELSE 1 + Log2Ceil((n + 1) \div 2)

\* ----------------------------------------------------------- Merkle builder
\* variant: a zero right sibling is hashed like any other
calcMerkleNoDup(l, r) ==
    IF l = ZeroHash /\ r = ZeroHash THEN ZeroHash ELSE Hash256(l, r)

calcMerkle(l, r) ==
    IF l = ZeroHash /\ r = ZeroHash THEN ZeroHash
    ELSE IF r = ZeroHash THEN Hash256(l, l)
    ELSE Hash256(l, r)

MerkleLayer(prev) ==
    [i \in 1..(Len(prev) \div 2) |-> calcMerkle(prev[2 * i - 1], prev[2 * i])]

RECURSIVE MerkleLayers(_)
MerkleLayers(prev) ==
    IF Len(prev) <= 1 THEN <<>>
    ELSE LET next == MerkleLayer(prev) IN next \o MerkleLayers(next)

BuildMerkleTreeStoreFromBytes(nodes) ==
    LET n == Len(nodes)
        N == CeilPowerOfTwo(n)
        leaves == [i \in 1..N |-> IF i <= n THEN nodes[i].Hash ELSE ZeroHash]
    IN  IF n = 0 THEN <<>>
        ELSE IF n = 1 THEN <<nodes[1].Hash>>
        ELSE MerkleLayers(leaves)

Last(s) == s[Len(s)]

\* ------------------------------------------------------------------- state
\* the subtrees and the last call made on them
VARIABLES trees, live, call, ret, nOps
\* the codec: the bytes Serialize produced and what a decoder made of them
VARIABLES wire, decoded
\* the proof GetMerkleProof returned
VARIABLES proof
\* the Merkle builder at work on one leaf sequence
VARIABLES builder
\* the mmap node stores: the files of the directory, the stores, the
\* goroutines that call Close
VARIABLES dir, stores, closers
\* a heap-backed and an mmap-backed subtree side by side; a Data value; a
\* TxInpoints value; goroutines sharing one subtree
VARIABLES backing, txdata, inpoints, conc

treeVars == <<trees, live, call, ret, nOps>>
codecVars == <<wire, decoded>>
mmapVars == <<dir, stores, closers>>
extVars == <<backing, txdata, inpoints, conc>>

vars == <<trees, live, call, ret, nOps, wire, decoded, proof, builder,
          dir, stores, closers, backing, txdata, inpoints, conc>>

TreeIds == {"orig", "copy"}

EmptyMap == [h \in {} |-> 0]

SubtreeNode(h, f, s) == [Hash |-> h, Fee |-> f, SizeInBytes |-> s]

\* the zero value &Subtree{}
ZeroSubtree ==
    [Height |-> 0, Fees |-> 0, SizeInBytes |-> 0, Nodes |-> <<>>, capNodes |-> 0,
     ConflictingNodes |-> <<>>, rootHash |-> NilHash, treeSize |-> 0,
     hasNodeIndex |-> FALSE, nodeIndex |-> EmptyMap]

Pow2(h) == 2 ^ h

NewTree(height) ==
    [ZeroSubtree EXCEPT !.Height = height, !.capNodes = Pow2(height),
                        !.treeSize = Pow2(height)]

NewTreeByLeafCount(maxNumberOfLeaves) == NewTree(Log2Ceil(maxNumberOfLeaves))

\* ---------------------------------------------------------------- observers
Size(st) == st.capNodes
Length(st) == Len(st.Nodes)
IsComplete(st) == Len(st.Nodes) = st.capNodes

\* append(s, x) on a slice of length len and capacity c: the capacity of the
\* result (unchanged while the element fits, else grown as the Go runtime
\* grows small slices of 48-byte elements: 0 -> 1, c -> 2c)
AppendCap(len, c) == IF len + 1 <= c THEN c ELSE IF c = 0 THEN 1 ELSE 2 * c

\* -------------------------------------------------------- method semantics
\* Each method is modelled by an operator that maps the receiver to the
\* receiver after the call, and one that gives the returned value.

NoRet == [err |-> "", hash |-> NilHash, index |-> 0]

Contains(s, x) == \E i \in 1..Len(s) : s[i] = x

HasHash(nodes, h) == \E i \in 1..Len(nodes) : nodes[i].Hash = h

RootHashResult(st) ==
    IF st.rootHash # NilHash THEN st
    ELSE IF Length(st) = 0 THEN st
    ELSE [st EXCEPT !.rootHash = Last(BuildMerkleTreeStoreFromBytes(st.Nodes))]

\* variant: the capacity test lets one leaf too many in
AddNodeErrOffByOne(st, h) ==
    IF Len(st.Nodes) > st.treeSize THEN "full"
    ELSE IF h = CoinbasePlaceholder THEN "placeholder"
    ELSE ""

AddNodeErr(st, h) ==
    IF Len(st.Nodes) + 1 > st.treeSize THEN "full"
    ELSE IF h = CoinbasePlaceholder THEN "placeholder"
    ELSE ""

AddNodeResult(st, h, f, s) ==
    IF AddNodeErr(st, h) # "" THEN st
    ELSE [st EXCEPT
            !.Nodes = Append(st.Nodes, SubtreeNode(h, f, s)),
            !.capNodes = AppendCap(Len(st.Nodes), st.capNodes),
            !.rootHash = NilHash,
            !.Fees = U64(st.Fees + f),
            !.SizeInBytes = U64(st.SizeInBytes + s),
            !.nodeIndex = IF st.hasNodeIndex
                          THEN [k \in DOMAIN st.nodeIndex \cup {h} |->
                                  IF k = h THEN Len(st.Nodes) ELSE st.nodeIndex[k]]
                          ELSE st.nodeIndex]

AddSubtreeNodeResult(st, node) ==
    AddNodeResult(st, node.Hash, node.Fee, node.SizeInBytes)

AddCoinbaseNodeErr(st) == IF Len(st.Nodes) # 0 THEN "notempty" ELSE ""

AddCoinbaseNodeResult(st) ==
    IF AddCoinbaseNodeErr(st) # "" THEN st
    ELSE [st EXCEPT
            !.Nodes = Append(st.Nodes, SubtreeNode(CoinbasePlaceholder, 0, 0)),
            !.capNodes = AppendCap(Len(st.Nodes), st.capNodes),
            !.rootHash = NilHash,
            !.Fees = 0,
            !.SizeInBytes = 0]

ReplaceRootNodeResult(st, h, f, s) ==
    LET st1 == IF Len(st.Nodes) < 1
               THEN [st EXCEPT !.Nodes = Append(st.Nodes, SubtreeNode(h, f, s)),
                               !.capNodes = AppendCap(Len(st.Nodes), st.capNodes)]
               ELSE [st EXCEPT !.Nodes[1] = SubtreeNode(h, f, s)]
        st2 == [st1 EXCEPT !.rootHash = NilHash,
                           !.SizeInBytes = U64(st.SizeInBytes + s)]
    IN  RootHashResult(st2)

AddConflictingNodeErr(st, h) ==
    IF ~HasHash(st.Nodes, h) THEN "notinsubtree" ELSE ""

AddConflictingNodeResult(st, h) ==
    IF AddConflictingNodeErr(st, h) # "" THEN st
    ELSE IF Contains(st.ConflictingNodes, h) THEN st
    ELSE [st EXCEPT !.ConflictingNodes = Append(st.ConflictingNodes, h)]

\* st.Nodes[index] with a negative index is a run-time panic
RemoveNodeAtIndexErr(st, index) ==
    IF index >= Len(st.Nodes) THEN "range"
    ELSE IF index < 0 THEN "panic"
    ELSE ""

RemoveAt(s, index) ==
    [i \in 1..(Len(s) - 1) |-> IF i <= index THEN s[i] ELSE s[i + 1]]

\* variant: the cached root survives the removal
RemoveNodeAtIndexKeepsRoot(st, index) ==
    IF RemoveNodeAtIndexErr(st, index) # "" THEN st
    ELSE LET node == st.Nodes[index + 1] IN
         [st EXCEPT
            !.Fees = U64(st.Fees - node.Fee),
            !.SizeInBytes = U64(st.SizeInBytes - node.SizeInBytes),
            !.Nodes = RemoveAt(st.Nodes, index),
            !.nodeIndex = IF st.hasNodeIndex
                          THEN [k \in DOMAIN st.nodeIndex \ {node.Hash} |-> st.nodeIndex[k]]
                          ELSE st.nodeIndex]

\* variant: the size of the removed element stays in the aggregate
RemoveNodeAtIndexKeepsSize(st, index) ==
    IF RemoveNodeAtIndexErr(st, index) # "" THEN st
    ELSE LET node == st.Nodes[index + 1] IN
         [st EXCEPT
            !.Fees = U64(st.Fees - node.Fee),
            !.Nodes = RemoveAt(st.Nodes, index),
            !.rootHash = NilHash,
            !.nodeIndex = IF st.hasNodeIndex
                          THEN [k \in DOMAIN st.nodeIndex \ {node.Hash} |-> st.nodeIndex[k]]
                          ELSE st.nodeIndex]

RemoveNodeAtIndexResult(st, index) ==
    IF RemoveNodeAtIndexErr(st, index) # "" THEN st
    ELSE LET node == st.Nodes[index + 1] IN
         [st EXCEPT
            !.Fees = U64(st.Fees - node.Fee),
            !.SizeInBytes = U64(st.SizeInBytes - node.SizeInBytes),
            !.Nodes = RemoveAt(st.Nodes, index),
            !.rootHash = NilHash,
            !.nodeIndex = IF st.hasNodeIndex
                          THEN [k \in DOMAIN st.nodeIndex \ {node.Hash} |-> st.nodeIndex[k]]
                          ELSE st.nodeIndex]

\* the map built by ranging over Nodes: a hash that occurs twice keeps the
\* index of its last occurrence
BuildNodeIndex(nodes) ==
    [h \in {nodes[i].Hash : i \in 1..Len(nodes)} |->
        (CHOOSE i \in 1..Len(nodes) :
            /\ nodes[i].Hash = h
            /\ \A j \in 1..Len(nodes) : nodes[j].Hash = h => j <= i) - 1]

NodeIndexResult(st) ==
    IF st.hasNodeIndex THEN st
    ELSE [st EXCEPT !.hasNodeIndex = TRUE, !.nodeIndex = BuildNodeIndex(st.Nodes)]

NodeIndexValue(st, h) ==
    LET m == NodeIndexResult(st).nodeIndex
    IN  IF h \in DOMAIN m THEN m[h] ELSE -1

Duplicate(st) ==
    [Height |-> st.Height, Fees |-> st.Fees, SizeInBytes |-> st.SizeInBytes,
     Nodes |-> st.Nodes, capNodes |-> Len(st.Nodes),
     ConflictingNodes |-> st.ConflictingNodes, rootHash |-> st.rootHash,
     treeSize |-> st.treeSize, hasNodeIndex |-> FALSE, nodeIndex |-> EmptyMap]

\* variant: ReplaceRootNode is called on the receiver instead of the clone
RootHashWithReplaceRootNodeInPlace(st, h, f, s) ==
    LET replaced == ReplaceRootNodeResult(st, h, f, s)
        store == BuildMerkleTreeStoreFromBytes(replaced.Nodes)
    IN  [recv |-> replaced, hash |-> Last(store)]

\* recv: the receiver after the call; hash: the root returned
RootHashWithReplaceRootNodeResult(st, h, f, s) ==
    LET subtreeClone == ReplaceRootNodeResult(Duplicate(st), h, f, s)
        store == BuildMerkleTreeStoreFromBytes(subtreeClone.Nodes)
    IN  [recv |-> st, hash |-> Last(store)]

\* ------------------------------------------------------------------- codec
\* A byte sequence is a sequence of integers.  The 32 bytes of a hash are its
\* integers followed by zero bytes (no hash of the model holds a 0 but the
\* zero hash, which is 32 zero bytes), so that a hash is read back by
\* dropping the trailing zero bytes.
HashSize == 32

Min(a, b) == IF a <= b THEN a ELSE b

HashBytes(h) == h \o [i \in 1..(HashSize - Len(h)) |-> 0]

RECURSIVE StripZeros(_)
StripZeros(b) ==
    IF b = <<>> THEN <<>>
    ELSE IF b[Len(b)] = 0 THEN StripZeros(SubSeq(b, 1, Len(b) - 1))
    ELSE b

HashFromBytes(b) == IF StripZeros(b) = <<>> THEN ZeroHash ELSE StripZeros(b)

\* binary.LittleEndian.PutUint64 / Uint64, on k bytes
RECURSIVE PutUintLE(_, _)
PutUintLE(x, k) == IF k = 0 THEN <<>> ELSE <<x % 256>> \o PutUintLE(x \div 256, k - 1)

PutUint64(x) == PutUintLE(x, 8)

RECURSIVE Uint64(_)
Uint64(b) == IF b = <<>> THEN 0 ELSE b[1] + 256 * Uint64(Tail(b))

RECURSIVE Flatten(_)
Flatten(ss) == IF ss = <<>> THEN <<>> ELSE ss[1] \o Flatten(Tail(ss))

NodeBytes(n) == HashBytes(n.Hash) \o PutUint64(n.Fee) \o PutUint64(n.SizeInBytes)

\* st.RootHash()[:] of a nil root is a nil-pointer dereference
SerializeErr(st) == IF RootHashResult(st).rootHash = NilHash THEN "panic" ELSE ""

SerializeBytes(st) ==
    HashBytes(RootHashResult(st).rootHash)
    \o PutUint64(st.Fees) \o PutUint64(st.SizeInBytes)
    \o PutUint64(Len(st.Nodes))
    \o Flatten([i \in 1..Len(st.Nodes) |-> NodeBytes(st.Nodes[i])])
    \o PutUint64(Len(st.ConflictingNodes))
    \o Flatten([i \in 1..Len(st.ConflictingNodes) |-> HashBytes(st.ConflictingNodes[i])])

SerializeNodes(st) == Flatten([i \in 1..Len(st.Nodes) |-> HashBytes(st.Nodes[i].Hash)])

\* A bufio.Reader over the bytes b: r bytes are consumed, the bytes up to w
\* are in its buffer.  When the buffer is empty the reader refills it with one
\* read of at most ReaderSize bytes.
NewReader == [r |-> 0, w |-> 0]

Fill(b, rd) ==
    IF rd.r = rd.w THEN [rd EXCEPT !.w = Min(rd.r + ReaderSize, Len(b))] ELSE rd

\* bufio.Reader.Read(p) with len(p) = k: one refill at most, then as many
\* bytes as the buffer holds
BufRead(b, rd, k) ==
    LET f == Fill(b, rd)
        n == Min(k, f.w - f.r)
    IN  [rd |-> [f EXCEPT !.r = f.r + n], n |-> n,
         err |-> IF f.w = f.r THEN "EOF" ELSE "",
         p |-> SubSeq(b, f.r + 1, f.r + n)]

\* ReadBytes: ReadByte after ReadByte; n is incremented also by the ReadByte
\* that fails (which leaves a zero byte), and the error is dropped when n
\* has reached len(p)
RECURSIVE ReadBytesFrom(_, _, _, _)
ReadBytesFrom(b, rd, p, minRead) ==
    IF Len(p) >= minRead THEN [rd |-> rd, n |-> Len(p), err |-> "", p |-> p]
    ELSE LET f == Fill(b, rd) IN
         IF f.r = f.w
         THEN [rd |-> f, n |-> Len(p) + 1,
               err |-> IF Len(p) + 1 >= minRead THEN "" ELSE "ErrUnexpectedEOF",
               p |-> Append(p, 0)]
         ELSE ReadBytesFrom(b, [f EXCEPT !.r = f.r + 1], Append(p, b[f.r + 1]), minRead)

ReadBytes(b, rd, k) == ReadBytesFrom(b, rd, <<>>, k)

\* bufio.Reader.Discard(n); its error is ignored by the callers
RECURSIVE Discard(_, _, _)
Discard(b, rd, n) ==
    IF n = 0 THEN rd
    ELSE LET f == Fill(b, rd)
             skip == Min(f.w - f.r, n)
         IN  IF skip = 0 THEN f
             ELSE Discard(b, [f EXCEPT !.r = f.r + skip], n - skip)

\* io.ReadFull: Read after Read until k bytes are there or a Read fails
RECURSIVE ReadFullFrom(_, _, _, _)
ReadFullFrom(b, rd, p, k) ==
    IF Len(p) >= k THEN [rd |-> rd, err |-> "", p |-> p]
    ELSE LET x == BufRead(b, rd, k - Len(p)) IN
         IF x.err # "" THEN [rd |-> x.rd, err |-> x.err, p |-> p]
         ELSE ReadFullFrom(b, x.rd, p \o x.p, k)

ReadFull(b, rd, k) == ReadFullFrom(b, rd, <<>>, k)

\* The decoders.  A step of DeserializeFromReader takes and gives a record of
\* the error so far, the receiver and the reader.
RECURSIVE readNodes(_, _, _, _)
readNodes(b, rd, nodes, i) ==
    IF i > Len(nodes) THEN [err |-> "", rd |-> rd, nodes |-> nodes]
    ELSE LET x == ReadBytes(b, rd, 48) IN
         IF x.err # "" \/ x.n # 48
         THEN [err |-> "unable to read node", rd |-> x.rd, nodes |-> nodes]
         ELSE readNodes(b, x.rd,
                  [nodes EXCEPT ![i] =
                      SubtreeNode(HashFromBytes(SubSeq(x.p, 1, 32)),
                                  Uint64(SubSeq(x.p, 33, 40)),
                                  Uint64(SubSeq(x.p, 41, 48)))],
                  i + 1)

deserializeNodes(b, s) ==
    LET x == BufRead(b, s.rd, 8)
        numLeaves == Uint64(x.p)
        read == readNodes(b, x.rd, [i \in 1..numLeaves |-> SubtreeNode(ZeroHash, 0, 0)], 1)
    IN  IF s.err # "" THEN s
        ELSE IF x.err # "" \/ x.n # 8
        THEN [s EXCEPT !.err = "unable to read number of leaves", !.rd = x.rd]
        ELSE [err |-> read.err, rd |-> read.rd,
              st |-> [s.st EXCEPT !.treeSize = numLeaves,
                                  !.Height = Log2Ceil(numLeaves),
                                  !.Nodes = read.nodes,
                                  !.capNodes = numLeaves]]

\* variant: a Read that delivers fewer than 32 bytes of a conflicting hash
\* is taken for a whole hash
RECURSIVE readConflictingUnchecked(_, _, _, _, _)
readConflictingUnchecked(b, rd, hashes, i, count) ==
    IF i > count THEN [err |-> "", rd |-> rd, hashes |-> hashes]
    ELSE LET x == BufRead(b, rd, 32) IN
         IF x.err # ""
         THEN [err |-> "unable to read conflicting node", rd |-> x.rd,
               hashes |-> Append(hashes, HashFromBytes(x.p))]
         ELSE readConflictingUnchecked(b, x.rd, Append(hashes, HashFromBytes(x.p)),
                                       i + 1, count)

RECURSIVE readConflicting(_, _, _, _, _)
readConflicting(b, rd, hashes, i, count) ==
    IF i > count THEN [err |-> "", rd |-> rd, hashes |-> hashes]
    ELSE LET x == BufRead(b, rd, 32) IN
         IF x.err # "" \/ x.n # 32
         THEN [err |-> "unable to read conflicting node", rd |-> x.rd,
               hashes |-> Append(hashes, HashFromBytes(x.p))]
         ELSE readConflicting(b, x.rd, Append(hashes, HashFromBytes(x.p)), i + 1, count)

deserializeConflictingNodes(b, s) ==
    LET x == BufRead(b, s.rd, 8)
        count == Uint64(x.p)
        read == readConflicting(b, x.rd, <<>>, 1, count)
    IN  IF s.err # "" THEN s
        ELSE IF x.err # "" \/ x.n # 8
        THEN [s EXCEPT !.err = "unable to read number of conflicting nodes", !.rd = x.rd]
        ELSE [err |-> read.err, rd |-> read.rd,
              st |-> [s.st EXCEPT !.ConflictingNodes =
                          read.hashes \o [j \in 1..(count - Len(read.hashes)) |-> ZeroHash]]]

readRootHash(b, s) ==
    LET x == BufRead(b, s.rd, HashSize) IN
    [err |-> IF x.err # "" \/ x.n # HashSize THEN "unable to read root hash" ELSE "",
     rd |-> x.rd,
     st |-> [s.st EXCEPT !.rootHash = HashFromBytes(x.p)]]

readFees(b, s) ==
    LET x == BufRead(b, s.rd, 8) IN
    IF s.err # "" THEN s
    ELSE IF x.err # "" \/ x.n # 8 THEN [s EXCEPT !.err = "unable to read fees", !.rd = x.rd]
    ELSE [s EXCEPT !.rd = x.rd, !.st.Fees = Uint64(x.p)]

readSizeInBytes(b, s) ==
    LET x == BufRead(b, s.rd, 8) IN
    IF s.err # "" THEN s
    ELSE IF x.err # "" \/ x.n # 8
    THEN [s EXCEPT !.err = "unable to read sizeInBytes", !.rd = x.rd]
    ELSE [s EXCEPT !.rd = x.rd, !.st.SizeInBytes = Uint64(x.p)]

\* st.DeserializeFromReader(bytes.NewBuffer(b)): the error and the receiver
DeserializeFromReader(st, b) ==
    LET s0 == [err |-> "", rd |-> NewReader, st |-> st]
        s == deserializeConflictingNodes(b,
                 deserializeNodes(b, readSizeInBytes(b, readFees(b, readRootHash(b, s0)))))
    IN  [err |-> s.err, st |-> s.st]

\* a nil subtree comes with an error
NewSubtreeFromBytes(b) ==
    LET x == DeserializeFromReader(ZeroSubtree, b) IN
    IF x.err # "" THEN [err |-> x.err, st |-> ZeroSubtree] ELSE x

RECURSIVE readNodeHashes(_, _, _, _)
readNodeHashes(b, rd, out, left) ==
    IF left = 0 THEN [err |-> "", bytes |-> out]
    ELSE LET x == ReadBytes(b, rd, 48) IN
         IF x.err # "" THEN [err |-> "unable to read subtree node information", bytes |-> <<>>]
         ELSE readNodeHashes(b, x.rd, out \o SubSeq(x.p, 1, HashSize), left - 1)

DeserializeNodesFromReader(b) ==
    LET x == ReadBytes(b, NewReader, HashSize + 24)
        numLeaves == Uint64(SubSeq(x.p, HashSize + 17, HashSize + 24))
    IN  IF x.err # "" THEN [err |-> "unable to read subtree root information", bytes |-> <<>>]
        ELSE readNodeHashes(b, x.rd, <<>>, numLeaves)

RECURSIVE readFullHashes(_, _, _, _)
readFullHashes(b, rd, hashes, left) ==
    IF left = 0 THEN [err |-> "", hashes |-> hashes]
    ELSE LET x == ReadFull(b, rd, 32) IN
         IF x.err # "" THEN [err |-> "unable to read conflicting node", hashes |-> <<>>]
         ELSE readFullHashes(b, x.rd, Append(hashes, HashFromBytes(x.p)), left - 1)

DeserializeSubtreeConflictingFromReader(b) ==
    LET x == ReadFull(b, Discard(b, NewReader, 32 + 8 + 8), 8)
        numLeaves == Uint64(x.p)
        y == ReadFull(b, Discard(b, x.rd, 48 * numLeaves), 8)
    IN  IF x.err # "" THEN [err |-> "unable to read number of leaves", hashes |-> <<>>]
        ELSE IF y.err # ""
        THEN [err |-> "unable to read number of conflicting nodes", hashes |-> <<>>]
        ELSE readFullHashes(b, y.rd, <<>>, Uint64(y.p))

\* ------------------------------------------------------------ Merkle proof
\* "range": the error returned; "panic": an index outside a slice (a negative
\* index, or the right sibling of the last leaf of an odd row) or, on an
\* empty subtree, a slice made with a negative capacity
GetMerkleProofErr(st, index) ==
    IF index >= Len(st.Nodes) THEN "range"
    ELSE IF Len(st.Nodes) = 0 THEN "panic"
    ELSE IF Log2Ceil(Len(st.Nodes)) = 0 THEN ""
    ELSE IF index < 0 THEN "panic"
    ELSE IF index % 2 = 0 /\ index + 1 >= Len(st.Nodes) THEN "panic"
    ELSE ""

\* variant: the sibling slot is taken as it is, zero or not
RECURSIVE merkleProofAboveNoSkip(_, _, _, _, _, _)
merkleProofAboveNoSkip(merkleTree, totalLength, i, treeIndexPos, treeIndex, nodes) ==
    IF i <= 0 THEN nodes
    ELSE LET pos == treeIndexPos + treeIndex
             treePos == IF pos % 2 = 0 THEN pos + 1 ELSE pos - 1
         IN  merkleProofAboveNoSkip(merkleTree, totalLength, i - 1,
                                    treeIndexPos + Pow2(i), treeIndex \div 2,
                                    Append(nodes, merkleTree[treePos + 1]))

\* the loop above the leaf level: i counts down to 1
RECURSIVE merkleProofAbove(_, _, _, _, _, _)
merkleProofAbove(merkleTree, totalLength, i, treeIndexPos, treeIndex, nodes) ==
    IF i <= 0 THEN nodes
    ELSE LET pos == treeIndexPos + treeIndex
             treePos ==
                 IF pos % 2 = 0
                 THEN IF totalLength > pos + 1 /\ merkleTree[pos + 2] # ZeroHash
                      THEN pos + 1 ELSE pos
                 ELSE IF merkleTree[pos] # ZeroHash THEN pos - 1 ELSE pos
         IN  merkleProofAbove(merkleTree, totalLength, i - 1, treeIndexPos + Pow2(i),
                              treeIndex \div 2, Append(nodes, merkleTree[treePos + 1]))

\* the proof, for the calls that return one
GetMerkleProofNodes(st, index) ==
    LET merkleTree == BuildMerkleTreeStoreFromBytes(st.Nodes)
        height == Log2Ceil(Len(st.Nodes))
        totalLength == Pow2(height) + Len(merkleTree)
        sibling == IF index % 2 = 0 THEN st.Nodes[index + 2].Hash ELSE st.Nodes[index].Hash
    IN  IF height = 0 THEN <<>>
        ELSE merkleProofAbove(merkleTree, totalLength, height - 1, 0, index \div 2,
                              <<sibling>>)

\* ----------------------------------------------------------------- actions
Hashes ==LeafHashes \cup {CoinbasePlaceholder}

\* the (hash, fee, sizeInBytes) arguments of the calls: leaf <<h>> comes with
\* fee h and size 2h
LeafArgs == { SubtreeNode(<<h>>, h, 2 * h) : h \in 1..NumHashes }
AddArgs == LeafArgs \cup {SubtreeNode(CoinbasePlaceholder, 1, 2)}

\* the index arguments: negative, in range, len and beyond
IndexArgs(st) == -1..(Len(st.Nodes) + 1)

\* the parts of the state a run does not use stay as they are here
NoWire == <<>>

NoDecoded ==
    [op |-> "", strict |-> FALSE, err |-> "", st |-> ZeroSubtree,
     bytes |-> <<>>, hashes |-> <<>>]

NoBuilder ==
    [phase |-> "idle", parallel |-> FALSE, nodes |-> <<>>, input |-> <<>>,
     output |-> <<>>, last |-> <<>>, next |-> <<>>, store |-> <<>>]

CodecIdle == wire = NoWire /\ decoded = NoDecoded
ProofIdle == proof = <<>>
BuilderIdle == builder = NoBuilder
MmapIdle == dir = {} /\ stores = <<>> /\ closers = <<>>
BackingIdle == backing = <<>>
DataIdle == txdata = <<>>
InpointsIdle == inpoints = <<>>
ConcIdle == conc = <<>>
ExtIdle == BackingIdle /\ DataIdle /\ InpointsIdle /\ ConcIdle

TreeInit ==
    /\ \/ \E height \in 0..MaxHeight :
             trees = [t \in TreeIds |-> IF t = "orig" THEN NewTree(height) ELSE ZeroSubtree]
       \/ \E n \in 1..Pow2(MaxHeight) :
             /\ IsPowerOfTwo(n)
             /\ trees = [t \in TreeIds |->
                           IF t = "orig" THEN NewTreeByLeafCount(n) ELSE ZeroSubtree]
    /\ live = {"orig"}
    /\ call = [op |-> "NewTree", tree |-> "orig"]
    /\ ret = NoRet
    /\ nOps = 0

Init == TreeInit /\ CodecIdle /\ ProofIdle /\ BuilderIdle /\ MmapIdle /\ ExtIdle

\* one method call on the live subtree t
CalledOp(t, op) ==
    /\ nOps < MaxOps
    /\ t \in live
    /\ call' = [op |-> op, tree |-> t]
    /\ nOps' = nOps + 1

\* a call of the subtree container touches nothing but the subtrees
Called(t, op) ==
    /\ CalledOp(t, op)
    /\ UNCHANGED <<codecVars, proof, builder, mmapVars, extVars>>

AddNode(t, n) ==
    /\ Called(t, "AddNode")
    /\ trees' = [trees EXCEPT ![t] = AddNodeResult(trees[t], n.Hash, n.Fee, n.SizeInBytes)]
    /\ ret' = [NoRet EXCEPT !.err = AddNodeErr(trees[t], n.Hash)]
    /\ UNCHANGED live

AddSubtreeNode(t, node) ==
    /\ Called(t, "AddSubtreeNode")
    /\ trees' = [trees EXCEPT ![t] = AddSubtreeNodeResult(trees[t], node)]
    /\ ret' = [NoRet EXCEPT !.err = AddNodeErr(trees[t], node.Hash)]
    /\ UNCHANGED live

AddCoinbaseNode(t) ==
    /\ Called(t, "AddCoinbaseNode")
    /\ trees' = [trees EXCEPT ![t] = AddCoinbaseNodeResult(trees[t])]
    /\ ret' = [NoRet EXCEPT !.err = AddCoinbaseNodeErr(trees[t])]
    /\ UNCHANGED live

ReplaceRootNode(t, n) ==
    /\ Called(t, "ReplaceRootNode")
    /\ trees' = [trees EXCEPT ![t] =
                    ReplaceRootNodeResult(trees[t], n.Hash, n.Fee, n.SizeInBytes)]
    /\ ret' = [NoRet EXCEPT !.hash =
                    ReplaceRootNodeResult(trees[t], n.Hash, n.Fee, n.SizeInBytes).rootHash]
    /\ UNCHANGED live

AddConflictingNode(t, h) ==
    /\ Called(t, "AddConflictingNode")
    /\ trees' = [trees EXCEPT ![t] = AddConflictingNodeResult(trees[t], h)]
    /\ ret' = [NoRet EXCEPT !.err = AddConflictingNodeErr(trees[t], h)]
    /\ UNCHANGED live

RemoveNodeAtIndex(t, index) ==
    /\ Called(t, "RemoveNodeAtIndex")
    /\ trees' = [trees EXCEPT ![t] = RemoveNodeAtIndexResult(trees[t], index)]
    /\ ret' = [NoRet EXCEPT !.err = RemoveNodeAtIndexErr(trees[t], index)]
    /\ UNCHANGED live

RootHash(t) ==
    /\ Called(t, "RootHash")
    /\ trees' = [trees EXCEPT ![t] = RootHashResult(trees[t])]
    /\ ret' = [NoRet EXCEPT !.hash = RootHashResult(trees[t]).rootHash]
    /\ UNCHANGED live

RootHashWithReplaceRootNode(t, n) ==
    /\ Called(t, "RootHashWithReplaceRootNode")
    /\ trees' = [trees EXCEPT ![t] =
          RootHashWithReplaceRootNodeResult(trees[t], n.Hash, n.Fee, n.SizeInBytes).recv]
    /\ ret' = [NoRet EXCEPT !.hash =
          RootHashWithReplaceRootNodeResult(trees[t], n.Hash, n.Fee, n.SizeInBytes).hash]
    /\ UNCHANGED live

NodeIndex(t, h) ==
    /\ Called(t, "NodeIndex")
    /\ trees' = [trees EXCEPT ![t] = NodeIndexResult(trees[t])]
    /\ ret' = [NoRet EXCEPT !.index = NodeIndexValue(trees[t], h)]
    /\ UNCHANGED live

\* copy := t.Duplicate()
DuplicateCall(t) ==
    /\ Called(t, "Duplicate")
    /\ trees' = [trees EXCEPT !["copy"] = Duplicate(trees[t])]
    /\ live' = live \cup {"copy"}
    /\ ret' = NoRet

Next ==
    \/ \E t \in TreeIds, n \in AddArgs : AddNode(t, n)
    \/ \E t \in TreeIds, n \in AddArgs : AddSubtreeNode(t, n)
    \/ \E t \in TreeIds : AddCoinbaseNode(t)
    \/ \E t \in TreeIds, n \in LeafArgs : ReplaceRootNode(t, n)
    \/ \E t \in TreeIds, h \in Hashes : AddConflictingNode(t, h)
    \/ \E t \in TreeIds : \E index \in IndexArgs(trees[t]) : RemoveNodeAtIndex(t, index)
    \/ \E t \in TreeIds : RootHash(t)
    \/ \E t \in TreeIds, n \in LeafArgs : RootHashWithReplaceRootNode(t, n)
    \/ \E t \in TreeIds, h \in Hashes : NodeIndex(t, h)
    \/ \E t \in TreeIds : DuplicateCall(t)

Spec == Init /\ [][Next]_vars

\* ------------------------------------------------------- the codec at work
\* A run builds one subtree, serialises it once and hands the bytes, or the
\* first cut of them, to one decoder.
Serialize(t) ==
    /\ CalledOp(t, "Serialize")
    /\ wire = NoWire
    /\ trees' = [trees EXCEPT ![t] = RootHashResult(trees[t])]
    /\ ret' = [NoRet EXCEPT !.err = SerializeErr(trees[t])]
    /\ wire' = IF SerializeErr(trees[t]) = "" THEN SerializeBytes(trees[t]) ELSE NoWire
    /\ UNCHANGED <<live, decoded, proof, builder, mmapVars, extVars>>

Decoding(cut) ==
    /\ wire # NoWire
    /\ decoded = NoDecoded
    /\ cut \in 0..Len(wire)
    /\ UNCHANGED <<treeVars, wire, proof, builder, mmapVars, extVars>>

NewSubtreeFromBytesCall(cut) ==
    /\ Decoding(cut)
    /\ decoded' = [NoDecoded EXCEPT
                      !.op = "NewSubtreeFromBytes",
                      !.strict = cut < Len(wire),
                      !.err = NewSubtreeFromBytes(SubSeq(wire, 1, cut)).err,
                      !.st = NewSubtreeFromBytes(SubSeq(wire, 1, cut)).st]

DeserializeNodesFromReaderCall(cut) ==
    /\ Decoding(cut)
    /\ decoded' = [NoDecoded EXCEPT
                      !.op = "DeserializeNodesFromReader",
                      !.strict = cut < Len(wire),
                      !.err = DeserializeNodesFromReader(SubSeq(wire, 1, cut)).err,
                      !.bytes = DeserializeNodesFromReader(SubSeq(wire, 1, cut)).bytes]

DeserializeSubtreeConflictingFromReaderCall(cut) ==
    /\ Decoding(cut)
    /\ decoded' = [NoDecoded EXCEPT
                      !.op = "DeserializeSubtreeConflictingFromReader",
                      !.strict = cut < Len(wire),
                      !.err = DeserializeSubtreeConflictingFromReader(SubSeq(wire, 1, cut)).err,
                      !.hashes = DeserializeSubtreeConflictingFromReader(SubSeq(wire, 1, cut)).hashes]

NextCodec ==
    \/ \E n \in AddArgs : wire = NoWire /\ AddNode("orig", n)
    \/ wire = NoWire /\ AddCoinbaseNode("orig")
    \/ \E h \in Hashes : wire = NoWire /\ AddConflictingNode("orig", h)
    \/ \E index \in IndexArgs(trees["orig"]) :
          wire = NoWire /\ RemoveNodeAtIndex("orig", index)
    \/ Serialize("orig")
    \/ \E cut \in 0..Len(wire) : NewSubtreeFromBytesCall(cut)
    \/ \E cut \in 0..Len(wire) : DeserializeNodesFromReaderCall(cut)
    \/ \E cut \in 0..Len(wire) : DeserializeSubtreeConflictingFromReaderCall(cut)

SpecCodec == Init /\ [][NextCodec]_vars

\* ------------------------------------------------------ the proof at work
\* A run fills one subtree leaf after leaf and asks for proofs.
ProofLeaf(i) == SubtreeNode(<<i>>, i, 2 * i)

ProofInit ==
    /\ \E height \in 0..ProofHeight :
          trees = [t \in TreeIds |-> IF t = "orig" THEN NewTree(height) ELSE ZeroSubtree]
    /\ live = {"orig"}
    /\ call = [op |-> "NewTree", tree |-> "orig"]
    /\ ret = NoRet
    /\ nOps = 0
    /\ CodecIdle /\ ProofIdle /\ BuilderIdle /\ MmapIdle /\ ExtIdle

AddLeaf(t) ==
    LET n == ProofLeaf(Len(trees[t].Nodes) + 1) IN
    /\ t \in live
    /\ AddNodeErr(trees[t], n.Hash) = ""
    /\ call' = [op |-> "AddNode", tree |-> t]
    /\ trees' = [trees EXCEPT ![t] = AddNodeResult(trees[t], n.Hash, n.Fee, n.SizeInBytes)]
    /\ ret' = NoRet
    /\ proof' = <<>>
    /\ UNCHANGED <<live, nOps, codecVars, builder, mmapVars, extVars>>

GetMerkleProof(t, index) ==
    /\ t \in live
    /\ call' = [op |-> "GetMerkleProof", tree |-> t]
    /\ ret' = [NoRet EXCEPT !.err = GetMerkleProofErr(trees[t], index), !.index = index]
    /\ proof' = IF GetMerkleProofErr(trees[t], index) = ""
                THEN GetMerkleProofNodes(trees[t], index) ELSE <<>>
    /\ UNCHANGED <<trees, live, nOps, codecVars, builder, mmapVars, extVars>>

NextProof ==
    \/ AddLeaf("orig")
    \/ \E index \in IndexArgs(trees["orig"]) : GetMerkleProof("orig", index)

SpecProof == ProofInit /\ [][NextProof]_vars

\* ------------------------------------------------ the Merkle builder at work
\* A run builds the flat array of one leaf sequence, either in one piece or
\* layer by layer with workers.  Of a layer at work: input is the layer
\* below, output the layer being filled (a slot not yet written is nil),
\* worker w fills the slots after last[w-1] up to last[w] in order, and
\* next[w] is the slot it fills next.
BuilderNodes(n) == [i \in 1..n |-> ProofLeaf(i)]

PaddedLeaves(nodes) ==
    [i \in 1..CeilPowerOfTwo(Len(nodes)) |->
        IF i <= Len(nodes) THEN nodes[i].Hash ELSE ZeroHash]

BuilderInit ==
    /\ builder = NoBuilder
    /\ trees = [t \in TreeIds |-> ZeroSubtree]
    /\ live = {}
    /\ call = [op |-> "", tree |-> "orig"]
    /\ ret = NoRet
    /\ nOps = 0
    /\ CodecIdle /\ ProofIdle /\ MmapIdle /\ ExtIdle

BuilderStep == UNCHANGED <<treeVars, codecVars, proof, mmapVars, extVars>>

\* the builder below the threshold: one call, one result
BuildSequential(n) ==
    /\ builder.phase = "idle"
    /\ builder' = [NoBuilder EXCEPT
                      !.phase = "done",
                      !.nodes = BuilderNodes(n),
                      !.store = BuildMerkleTreeStoreFromBytes(BuilderNodes(n))]
    /\ BuilderStep

\* the builder at or above the threshold starts on the leaves
BuildParallel(n) ==
    /\ builder.phase = "idle"
    /\ builder' = [NoBuilder EXCEPT
                      !.phase = "split",
                      !.parallel = TRUE,
                      !.nodes = BuilderNodes(n),
                      !.input = PaddedLeaves(BuilderNodes(n))]
    /\ BuilderStep

\* the ways to cut slots 1..width into contiguous, non-empty ranges for
\* workers 1..W: the last slot of each worker
Partitions(width, W) ==
    { last \in [1..W -> 1..width] :
        /\ last[W] = width
        /\ \A w \in 1..(W - 1) : last[w] < last[w + 1] }

FirstSlot(last, w) == IF w = 1 THEN 1 ELSE last[w - 1] + 1

\* a layer is handed to its workers
StartLayer(last) ==
    /\ builder.phase = "split"
    /\ builder' = [builder EXCEPT
                      !.phase = "work",
                      !.output = [i \in 1..(Len(builder.input) \div 2) |-> NilHash],
                      !.last = last,
                      !.next = [w \in DOMAIN last |-> FirstSlot(last, w)]]
    /\ BuilderStep

\* worker w computes one pair of its range
Work(w) ==
    /\ builder.phase = "work"
    /\ w \in DOMAIN builder.next
    /\ builder.next[w] <= builder.last[w]
    /\ LET j == builder.next[w] IN
       builder' = [builder EXCEPT
                      !.output[j] = calcMerkle(builder.input[2 * j - 1], builder.input[2 * j]),
                      !.next[w] = j + 1]
    /\ BuilderStep

\* variant: the join waits for the first worker only
LayerDoneFirstWorker(b) == b.next[1] > b.last[1]

\* all workers of the layer have returned
LayerDone(b) == \A w \in DOMAIN b.next : b.next[w] > b.last[w]

\* the join: the layer goes into the flat array and becomes the input of
\* the next one; the layer of one slot is the root
Join ==
    /\ builder.phase = "work"
    /\ LayerDone(builder)
    /\ builder' = [builder EXCEPT
                      !.phase = IF Len(builder.output) = 1 THEN "done" ELSE "split",
                      !.store = builder.store \o builder.output,
                      !.input = builder.output,
                      !.output = <<>>, !.last = <<>>, !.next = <<>>]
    /\ BuilderStep

NextBuilder ==
    \/ \E n \in 0..MaxLeaves : BuildSequential(n)
    \/ \E n \in ParallelThreshold..MaxLeaves : BuildParallel(n)
    \/ \E W \in 1..MaxWorkers :
          \E last \in Partitions(Len(builder.input) \div 2, W) : StartLayer(last)
    \/ \E w \in 1..MaxWorkers : Work(w)
    \/ Join

SpecBuilder == BuilderInit /\ [][NextBuilder]_vars

\* ------------------------------------------------ the mmap node stores
\* One directory, the stores made in it by newFileBackedMmapNodes, and
\* goroutines that call Close on them.  A file is named by the number of the
\* construction that made it (os.CreateTemp picks a name that is not in
\* use).  Of a store: data is TRUE while the region is mapped, mu is the
\* goroutine that holds the mutex of once (0: none), munmaps and removes
\* count the calls of munmap and os.Remove made for it, closed tells that a
\* Close call has returned.
NewStore(name) ==
    [data |-> TRUE, filePath |-> name, done |-> FALSE, mu |-> 0,
     munmaps |-> 0, removes |-> 0, closed |-> FALSE]

IdleCloser == [pc |-> "idle", store |-> 0, err |-> "", ran |-> FALSE]

Capacities == {-1, 0, 4}
Outcomes == {"ok", "createTempFails", "truncateFails", "mmapFails"}

MmapInit ==
    /\ dir = {}
    /\ stores = <<>>
    /\ closers = [g \in 1..MaxClosers |-> IdleCloser]
    /\ trees = [t \in TreeIds |-> ZeroSubtree]
    /\ live = {}
    /\ call = [op |-> "", tree |-> "orig"]
    /\ ret = NoRet
    /\ nOps = 0
    /\ CodecIdle /\ ProofIdle /\ BuilderIdle /\ ExtIdle

newFileBackedMmapNodesErr(capacity, outcome) ==
    IF capacity <= 0 THEN "ErrCapacityNotPositive"
    ELSE IF outcome = "createTempFails" THEN "failed to create temp file"
    ELSE IF outcome = "truncateFails" THEN "failed to truncate file"
    ELSE IF outcome = "mmapFails" THEN "mmap failed"
    ELSE ""

\* variant: the file stays when mmap fails
newFileBackedMmapNodesDirLeak(d, name, capacity, outcome) ==
    IF capacity <= 0 \/ outcome = "createTempFails" THEN d
    ELSE IF outcome = "truncateFails" THEN (d \cup {name}) \ {name}
    ELSE d \cup {name}

\* the files of the directory after the call
newFileBackedMmapNodesDir(d, name, capacity, outcome) ==
    IF capacity <= 0 \/ outcome = "createTempFails" THEN d
    ELSE IF outcome \in {"truncateFails", "mmapFails"} THEN (d \cup {name}) \ {name}
    ELSE d \cup {name}

newFileBackedMmapNodes(capacity, outcome) ==
    /\ nOps < MaxStores
    /\ nOps' = nOps + 1
    /\ call' = [op |-> "newFileBackedMmapNodes", tree |-> "orig"]
    /\ ret' = [NoRet EXCEPT !.err = newFileBackedMmapNodesErr(capacity, outcome)]
    /\ dir' = newFileBackedMmapNodesDir(dir, nOps + 1, capacity, outcome)
    /\ stores' = IF newFileBackedMmapNodesErr(capacity, outcome) = ""
                  THEN Append(stores, NewStore(nOps + 1)) ELSE stores
    /\ UNCHANGED <<trees, live, closers, codecVars, proof, builder, extVars>>

MmapStep == UNCHANGED <<treeVars, codecVars, proof, builder, extVars>>

\* goroutine g calls Close on store s
Close(g, s) ==
    /\ closers[g].pc = "idle"
    /\ s \in DOMAIN stores
    /\ closers' = [closers EXCEPT ![g] = [IdleCloser EXCEPT !.pc = "once", !.store = s]]
    /\ UNCHANGED <<dir, stores>>
    /\ MmapStep

\* once.Do: the load of done outside the mutex
OnceDo(g) ==
    /\ closers[g].pc = "once"
    /\ closers' = [closers EXCEPT ![g].pc =
                      IF stores[closers[g].store].done THEN "return" ELSE "lock"]
    /\ UNCHANGED <<dir, stores>>
    /\ MmapStep

\* variant: the function runs whatever done says
doSlowRunsAlways(store) == TRUE

\* doSlow, with the mutex held: the function runs when done is still 0
doSlowRuns(store) == ~store.done

OnceLock(g) ==
    LET s == closers[g].store IN
    /\ closers[g].pc = "lock"
    /\ stores[s].mu = 0
    /\ stores' = [stores EXCEPT ![s].mu = g]
    /\ closers' = [closers EXCEPT ![g].pc =
                      IF doSlowRuns(stores[s]) THEN "munmap" ELSE "unlock"]
    /\ UNCHANGED dir
    /\ MmapStep

\* the function of Close, first half: munmap (which may fail), m.data = nil
Munmap(g, fails) ==
    LET s == closers[g].store IN
    /\ closers[g].pc = "munmap"
    /\ stores' = [stores EXCEPT ![s] =
                     IF stores[s].data
                     THEN [stores[s] EXCEPT !.data = FALSE, !.munmaps = @ + 1]
                     ELSE stores[s]]
    /\ closers' = [closers EXCEPT ![g] =
                      [closers[g] EXCEPT
                          !.pc = "remove", !.ran = TRUE,
                          !.err = IF stores[s].data /\ fails THEN "munmap failed" ELSE ""]]
    /\ UNCHANGED dir
    /\ MmapStep

\* second half: os.Remove(m.filePath), its error ignored
Remove(g) ==
    LET s == closers[g].store IN
    /\ closers[g].pc = "remove"
    /\ dir' = dir \ {stores[s].filePath}
    /\ stores' = [stores EXCEPT ![s].removes = @ + 1]
    /\ closers' = [closers EXCEPT ![g].pc = "store"]
    /\ MmapStep

\* the deferred done.Store(1)
OnceStore(g) ==
    /\ closers[g].pc = "store"
    /\ stores' = [stores EXCEPT ![closers[g].store].done = TRUE]
    /\ closers' = [closers EXCEPT ![g].pc = "unlock"]
    /\ UNCHANGED dir
    /\ MmapStep

\* the deferred Unlock
OnceUnlock(g) ==
    /\ closers[g].pc = "unlock"
    /\ stores' = [stores EXCEPT ![closers[g].store].mu = 0]
    /\ closers' = [closers EXCEPT ![g].pc = "return"]
    /\ UNCHANGED dir
    /\ MmapStep

\* Close returns err
CloseReturn(g) ==
    /\ closers[g].pc = "return"
    /\ stores' = [stores EXCEPT ![closers[g].store].closed = TRUE]
    /\ closers' = [closers EXCEPT ![g].pc = "idle"]
    /\ UNCHANGED dir
    /\ MmapStep

NextMmap ==
    \/ \E capacity \in Capacities, outcome \in Outcomes :
          newFileBackedMmapNodes(capacity, outcome)
    \/ \E g \in 1..MaxClosers : \E s \in DOMAIN stores : Close(g, s)
    \/ \E g \in 1..MaxClosers : OnceDo(g)
    \/ \E g \in 1..MaxClosers : OnceLock(g)
    \/ \E g \in 1..MaxClosers, fails \in BOOLEAN : Munmap(g, fails)
    \/ \E g \in 1..MaxClosers : Remove(g)
    \/ \E g \in 1..MaxClosers : OnceStore(g)
    \/ \E g \in 1..MaxClosers : OnceUnlock(g)
    \/ \E g \in 1..MaxClosers : CloseReturn(g)

SpecMmap == MmapInit /\ [][NextMmap]_vars

\* ------------------------------------- heap and mmap backing side by side
\* The nodes of an mmap-backed subtree live in the mapped region: node i is
\* the nodeSize bytes from (i - 1) * nodeSize on, its hash, its fee and its
\* size as the machine lays them out.  The slice over the region has length
\* len and the capacity the region was made for; what a method does to the
\* slice it does to the bytes of the region.
nodeSize == 48

\* variant: the size of a node is not read back from the region
NodeFromBytesNoSize(b) ==
    SubtreeNode(HashFromBytes(SubSeq(b, 1, HashSize)),
                Uint64(SubSeq(b, HashSize + 1, HashSize + 8)), 0)

NodeFromBytes(b) ==
    SubtreeNode(HashFromBytes(SubSeq(b, 1, HashSize)),
                Uint64(SubSeq(b, HashSize + 1, HashSize + 8)),
                Uint64(SubSeq(b, HashSize + 9, nodeSize)))

\* the slice of length len over the region
RegionNodes(region, len) ==
    [i \in 1..len |-> NodeFromBytes(SubSeq(region, (i - 1) * nodeSize + 1, i * nodeSize))]

\* the region after the elements of the slice have been written; the bytes
\* beyond the slice stay what they were
RegionWrite(region, nodes) ==
    Flatten([i \in 1..Len(nodes) |-> NodeBytes(nodes[i])])
        \o SubSeq(region, Len(nodes) * nodeSize + 1, Len(region))

\* the mmap-backed subtree as its methods see it
MmapView(b) == [b.mmap EXCEPT !.Nodes = RegionNodes(b.region, b.len)]

BackingRet == [err |-> "", hash |-> NilHash, index |-> 0, proof |-> <<>>, bytes |-> <<>>]

NewTreeMmap(height) ==
    [op |-> "NewTree", n |-> 0,
     heap |-> NewTree(height),
     mmap |-> NewTree(height),
     region |-> [k \in 1..(Pow2(height) * nodeSize) |-> 0],
     len |-> 0,
     heapRet |-> BackingRet, mmapRet |-> BackingRet]

BackingInit ==
    /\ \E height \in 0..MaxHeight : backing = NewTreeMmap(height)
    /\ trees = [t \in TreeIds |-> ZeroSubtree]
    /\ live = {}
    /\ call = [op |-> "", tree |-> "orig"]
    /\ ret = NoRet
    /\ nOps = 0
    /\ CodecIdle /\ ProofIdle /\ BuilderIdle /\ MmapIdle
    /\ DataIdle /\ InpointsIdle /\ ConcIdle

\* one method called on both subtrees with the same arguments
Both(op, heapAfter, mmapAfter, heapRet, mmapRet) ==
    /\ backing.n < MaxBackingOps
    /\ backing' = [op |-> op, n |-> backing.n + 1,
                   heap |-> heapAfter,
                   mmap |-> [mmapAfter EXCEPT !.Nodes = <<>>],
                   region |-> RegionWrite(backing.region, mmapAfter.Nodes),
                   len |-> Len(mmapAfter.Nodes),
                   heapRet |-> heapRet, mmapRet |-> mmapRet]
    /\ UNCHANGED <<treeVars, codecVars, proof, builder, mmapVars, txdata, inpoints, conc>>

BothAddSubtreeNode(n) ==
    Both("AddSubtreeNode",
         AddSubtreeNodeResult(backing.heap, n), AddSubtreeNodeResult(MmapView(backing), n),
         [BackingRet EXCEPT !.err = AddNodeErr(backing.heap, n.Hash)],
         [BackingRet EXCEPT !.err = AddNodeErr(MmapView(backing), n.Hash)])

BothAddCoinbaseNode ==
    Both("AddCoinbaseNode",
         AddCoinbaseNodeResult(backing.heap), AddCoinbaseNodeResult(MmapView(backing)),
         [BackingRet EXCEPT !.err = AddCoinbaseNodeErr(backing.heap)],
         [BackingRet EXCEPT !.err = AddCoinbaseNodeErr(MmapView(backing))])

BothRemoveNodeAtIndex(index) ==
    Both("RemoveNodeAtIndex",
         RemoveNodeAtIndexResult(backing.heap, index),
         RemoveNodeAtIndexResult(MmapView(backing), index),
         [BackingRet EXCEPT !.err = RemoveNodeAtIndexErr(backing.heap, index)],
         [BackingRet EXCEPT !.err = RemoveNodeAtIndexErr(MmapView(backing), index)])

BothAddConflictingNode(h) ==
    Both("AddConflictingNode",
         AddConflictingNodeResult(backing.heap, h),
         AddConflictingNodeResult(MmapView(backing), h),
         [BackingRet EXCEPT !.err = AddConflictingNodeErr(backing.heap, h)],
         [BackingRet EXCEPT !.err = AddConflictingNodeErr(MmapView(backing), h)])

BothRootHash ==
    Both("RootHash",
         RootHashResult(backing.heap), RootHashResult(MmapView(backing)),
         [BackingRet EXCEPT !.hash = RootHashResult(backing.heap).rootHash],
         [BackingRet EXCEPT !.hash = RootHashResult(MmapView(backing)).rootHash])

BothNodeIndex(h) ==
    Both("NodeIndex",
         NodeIndexResult(backing.heap), NodeIndexResult(MmapView(backing)),
         [BackingRet EXCEPT !.index = NodeIndexValue(backing.heap, h)],
         [BackingRet EXCEPT !.index = NodeIndexValue(MmapView(backing), h)])

GetMerkleProofRet(st, index) ==
    [BackingRet EXCEPT
        !.err = GetMerkleProofErr(st, index),
        !.proof = IF GetMerkleProofErr(st, index) = ""
                  THEN GetMerkleProofNodes(st, index) ELSE <<>>]

BothGetMerkleProof(index) ==
    Both("GetMerkleProof", backing.heap, MmapView(backing),
         GetMerkleProofRet(backing.heap, index),
         GetMerkleProofRet(MmapView(backing), index))

SerializeRet(st) ==
    [BackingRet EXCEPT
        !.err = SerializeErr(st),
        !.bytes = IF SerializeErr(st) = "" THEN SerializeBytes(st) ELSE <<>>]

BothSerialize ==
    Both("Serialize",
         RootHashResult(backing.heap), RootHashResult(MmapView(backing)),
         SerializeRet(backing.heap), SerializeRet(MmapView(backing)))

NextBacking ==
    \/ \E n \in AddArgs : BothAddSubtreeNode(n)
    \/ BothAddCoinbaseNode
    \/ \E index \in IndexArgs(backing.heap) : BothRemoveNodeAtIndex(index)
    \/ \E h \in Hashes : BothAddConflictingNode(h)
    \/ BothRootHash
    \/ \E h \in Hashes : BothNodeIndex(h)
    \/ \E index \in IndexArgs(backing.heap) : BothGetMerkleProof(index)
    \/ BothSerialize

SpecBacking == BackingInit /\ [][NextBacking]_vars

\* ------------------------------------------------------- the Data at work
\* A transaction is its id (the hash TxIDChainHash gives) and whether
\* IsCoinbase holds of it; on the wire it is one byte that tells a coinbase
\* from another transaction, followed by the byte of its id.  NilTx is the
\* nil pointer in a slot.
NilTx == [id |-> NilHash, coinbase |-> FALSE]

Tx(id, coinbase) == [id |-> id, coinbase |-> coinbase]

\* the transactions a run works with: two that are not coinbases, a coinbase
\* with the id of the first, and a coinbase with an id of its own
DataTxs == {Tx(<<1>>, FALSE), Tx(<<2>>, FALSE), Tx(<<1>>, TRUE), Tx(<<9>>, TRUE)}

DataHashes == {<<1>>, <<2>>}

SerializeBytesTx(tx) == <<IF tx.coinbase THEN 2 ELSE 1, tx.id[1]>>

\* tx.ReadFrom at position pos of the bytes b
ReadFrom(b, pos) ==
    IF pos >= Len(b) THEN [err |-> "EOF", tx |-> NilTx, pos |-> pos]
    ELSE IF Len(b) - pos < 2 THEN [err |-> "read", tx |-> NilTx, pos |-> Len(b)]
    ELSE [err |-> "", tx |-> Tx(<<b[pos + 2]>>, b[pos + 1] = 2), pos |-> pos + 2]

\* the streams a decoder is given: up to n transactions, none of them the
\* coinbase that has the id of a leaf
TxStreams(n) == UNION { [1..k -> DataTxs \ {Tx(<<1>>, TRUE)}] : k \in 0..n }

StreamBytes(txs) == Flatten([i \in 1..Len(txs) |-> SerializeBytesTx(txs[i])])

\* the leaves of the subtrees a Data is bound to: any hashes, the first of
\* them possibly the placeholder
RECURSIVE DataNodes(_)
DataNodes(n) ==
    IF n = 0 THEN {<<>>}
    ELSE IF n = 1 THEN { <<SubtreeNode(h, 1, 1)>> : h \in DataHashes \cup {CoinbasePlaceholder} }
    ELSE { Append(s, SubtreeNode(h, 1, 1)) : s \in DataNodes(n - 1), h \in DataHashes }

\* the smallest subtree NewIncompleteTreeByLeafCount makes that holds nodes
DataSubtree(nodes) ==
    [NewTree(Log2Ceil(Len(nodes))) EXCEPT !.Nodes = nodes, !.Fees = Len(nodes),
                                          !.SizeInBytes = Len(nodes)]

DataSubtrees ==
    { DataSubtree(nodes) : nodes \in UNION { DataNodes(n) : n \in 0..MaxDataNodes } }

MakeTxs(n) == [i \in 1..n |-> NilTx]

\* &Data{}: no subtree, no slots
ZeroData == [bound |-> FALSE, Subtree |-> ZeroSubtree, Txs |-> <<>>]

NewSubtreeData(subtree) ==
    [bound |-> TRUE, Subtree |-> subtree, Txs |-> MakeTxs(Size(subtree))]

\* the loop of serializeFromReader from position pos on; count counts the
\* transactions read so far and first is the count at which slot 0 was last
\* written (0: never)
RECURSIVE readTxs(_, _, _, _, _, _, _)
readTxs(nodes, b, pos, txIndex, txs, count, first) ==
    LET r == ReadFrom(b, pos) IN
    IF r.err = "EOF" THEN [err |-> "", Txs |-> txs, first |-> first]
    ELSE IF r.err # "" THEN [err |-> "error reading transaction", Txs |-> txs, first |-> first]
    ELSE IF txIndex = 1 /\ r.tx.coinbase
         THEN readTxs(nodes, b, r.pos, txIndex, [txs EXCEPT ![1] = r.tx],
                      count + 1, count + 1)
    ELSE IF txIndex >= Len(nodes)
         THEN [err |-> "ErrTxIndexOutOfBounds", Txs |-> txs, first |-> first]
    ELSE IF nodes[txIndex + 1].Hash # r.tx.id
         THEN [err |-> "ErrTxHashMismatch", Txs |-> txs, first |-> first]
    ELSE readTxs(nodes, b, r.pos, txIndex + 1, [txs EXCEPT ![txIndex + 1] = r.tx],
                 count + 1, IF txIndex = 0 THEN count + 1 ELSE first)

serializeFromReader(s, b) ==
    IF ~s.bound \/ Len(s.Subtree.Nodes) = 0
    THEN [err |-> "ErrSubtreeNodesEmpty", Txs |-> s.Txs, first |-> 0]
    ELSE readTxs(s.Subtree.Nodes, b, 0,
                 IF s.Subtree.Nodes[1].Hash = CoinbasePlaceholder THEN 1 ELSE 0,
                 MakeTxs(Length(s.Subtree)), 0, 0)

\* the Data and the error NewSubtreeDataFromBytes returns (no Data on error)
NewSubtreeDataFromBytes(subtree, bound, b) ==
    LET s == [bound |-> bound, Subtree |-> subtree, Txs |-> <<>>]
        r == serializeFromReader(s, b)
    IN  [err |-> r.err, first |-> r.first,
         data |-> IF r.err = "" THEN [s EXCEPT !.Txs = r.Txs] ELSE ZeroData]

\* AddTx: what it returns; "panic" is an index out of range or a nil
\* pointer at run time
AddTxErr(s, tx, index) ==
    IF ~s.bound THEN "panic"
    ELSE IF index < 0 \/ index >= Len(s.Subtree.Nodes) THEN "panic"
    ELSE IF index = 0 /\ tx.coinbase /\ s.Subtree.Nodes[1].Hash = CoinbasePlaceholder
         THEN (IF index >= Len(s.Txs) THEN "panic" ELSE "")
    ELSE IF s.Subtree.Nodes[index + 1].Hash # tx.id THEN "ErrTxHashMismatch"
    ELSE IF index >= Len(s.Txs) THEN "panic"
    ELSE ""

AddTxResult(s, tx, index) ==
    IF AddTxErr(s, tx, index) # "" THEN s
    ELSE [s EXCEPT !.Txs[index + 1] = tx]

\* the first loop of Serialize from slot i on
RECURSIVE serializeCheck(_, _, _)
serializeCheck(s, i, subtreeLen) ==
    IF i >= subtreeLen THEN ""
    ELSE IF i >= Len(s.Txs) THEN "panic"
    ELSE IF s.Txs[i + 1] = NilTx /\ i # 0 THEN "ErrSubtreeLengthMismatch"
    ELSE serializeCheck(s, i + 1, subtreeLen)

\* the second loop: SerializeBytes of a nil transaction is a nil pointer
\* dereference
RECURSIVE serializeWrite(_, _, _)
serializeWrite(s, i, subtreeLen) ==
    IF i >= subtreeLen THEN [err |-> "", bytes |-> <<>>]
    ELSE IF s.Txs[i + 1] = NilTx THEN [err |-> "panic", bytes |-> <<>>]
    ELSE LET rest == serializeWrite(s, i + 1, subtreeLen) IN
         IF rest.err # "" THEN rest
         ELSE [err |-> "", bytes |-> SerializeBytesTx(s.Txs[i + 1]) \o rest.bytes]

txStartIndex(s) == IF s.Subtree.Nodes[1].Hash = CoinbasePlaceholder THEN 1 ELSE 0

DataSerialize(s) ==
    IF ~s.bound THEN [err |-> "ErrCannotSerializeSubtreeNotSet", bytes |-> <<>>]
    ELSE IF Len(s.Subtree.Nodes) = 0 THEN [err |-> "panic", bytes |-> <<>>]
    ELSE IF serializeCheck(s, txStartIndex(s), Length(s.Subtree)) # ""
         THEN [err |-> serializeCheck(s, txStartIndex(s), Length(s.Subtree)), bytes |-> <<>>]
    ELSE serializeWrite(s, txStartIndex(s), Length(s.Subtree))

\* the loop of ReadTransactionsFromReader from slot i on
RECURSIVE readRange(_, _, _, _, _, _)
readRange(s, b, pos, i, endIdx, txsRead) ==
    IF i >= endIdx THEN [err |-> "", Txs |-> s.Txs, txsRead |-> txsRead]
    ELSE IF i = 0 /\ s.Subtree.Nodes[1].Hash = CoinbasePlaceholder
         THEN readRange(s, b, pos, i + 1, endIdx, txsRead)
    ELSE LET r == ReadFrom(b, pos) IN
         IF r.err = "EOF" THEN [err |-> "", Txs |-> s.Txs, txsRead |-> txsRead]
         ELSE IF r.err # ""
              THEN [err |-> "error reading transaction", Txs |-> s.Txs, txsRead |-> txsRead]
         ELSE IF i < 0 \/ i >= Len(s.Subtree.Nodes)
              THEN [err |-> "panic", Txs |-> s.Txs, txsRead |-> txsRead]
         ELSE IF s.Subtree.Nodes[i + 1].Hash # r.tx.id
              THEN [err |-> "ErrTxHashMismatch", Txs |-> s.Txs, txsRead |-> txsRead]
         ELSE IF i >= Len(s.Txs)
              THEN [err |-> "panic", Txs |-> s.Txs, txsRead |-> txsRead]
         ELSE readRange([s EXCEPT !.Txs[i + 1] = r.tx], b, r.pos, i + 1, endIdx, txsRead + 1)

ReadTransactionsFromReader(s, b, startIdx, endIdx) ==
    IF ~s.bound \/ Len(s.Subtree.Nodes) = 0
    THEN [err |-> "ErrSubtreeNodesEmpty", Txs |-> s.Txs, txsRead |-> 0]
    ELSE readRange(s, b, 0, startIdx, endIdx, 0)

\* The state of a run: the subtree at hand, the Data made (made tells that
\* there is one, used that a method was called on it), the last call with its arguments and what it returned, and
\* the slots as they were before that call.
NoData ==
    [made |-> FALSE, used |-> FALSE, subtree |-> ZeroSubtree, data |-> ZeroData, op |-> "",
     err |-> "", bytes |-> <<>>, stream |-> <<>>, first |-> 0,
     tx |-> NilTx, index |-> 0, before |-> <<>>]

DataInit ==
    /\ \E subtree \in DataSubtrees : txdata = [NoData EXCEPT !.subtree = subtree]
    /\ trees = [t \in TreeIds |-> ZeroSubtree]
    /\ live = {}
    /\ call = [op |-> "", tree |-> "orig"]
    /\ ret = NoRet
    /\ nOps = 0
    /\ CodecIdle /\ ProofIdle /\ BuilderIdle /\ MmapIdle
    /\ BackingIdle /\ InpointsIdle /\ ConcIdle

DataStep == UNCHANGED <<treeVars, codecVars, proof, builder, mmapVars, backing, inpoints, conc>>

\* a Data that is bound to no subtree
NewZeroData ==
    /\ txdata.op = ""
    /\ txdata' = [NoData EXCEPT !.made = TRUE, !.subtree = txdata.subtree,
                                !.op = "Data{}"]
    /\ DataStep

NewSubtreeDataCall ==
    /\ txdata.op = ""
    /\ txdata' = [NoData EXCEPT !.made = TRUE, !.subtree = txdata.subtree,
                                !.op = "NewSubtreeData",
                                !.data = NewSubtreeData(txdata.subtree)]
    /\ DataStep

NewSubtreeDataFromBytesCall(txs) ==
    LET r == NewSubtreeDataFromBytes(txdata.subtree, TRUE, StreamBytes(txs)) IN
    /\ txdata.op = ""
    /\ txdata' = [NoData EXCEPT !.made = r.err = "", !.subtree = txdata.subtree,
                                !.op = "NewSubtreeDataFromBytes",
                                !.data = r.data, !.err = r.err,
                                !.stream = txs, !.first = r.first]
    /\ DataStep

AddTx(tx, index) ==
    /\ txdata.made /\ ~txdata.used
    /\ txdata' = [txdata EXCEPT !.used = TRUE, !.op = "AddTx", !.tx = tx, !.index = index,
                                !.err = AddTxErr(txdata.data, tx, index),
                                !.data = AddTxResult(txdata.data, tx, index),
                                !.before = txdata.data.Txs,
                                !.bytes = <<>>, !.stream = <<>>, !.first = 0]
    /\ DataStep

DataSerializeCall ==
    /\ txdata.made /\ ~txdata.used
    /\ txdata' = [txdata EXCEPT !.used = TRUE, !.op = "Serialize", !.tx = NilTx, !.index = 0,
                                !.err = DataSerialize(txdata.data).err,
                                !.bytes = DataSerialize(txdata.data).bytes,
                                !.before = txdata.data.Txs,
                                !.stream = <<>>, !.first = 0]
    /\ DataStep

ReadTransactionsFromReaderCall(txs, startIdx, endIdx) ==
    LET r == ReadTransactionsFromReader(txdata.data, StreamBytes(txs), startIdx, endIdx) IN
    /\ txdata.made /\ ~txdata.used
    /\ txdata' = [txdata EXCEPT !.used = TRUE, !.op = "ReadTransactionsFromReader",
                                !.tx = NilTx, !.index = startIdx,
                                !.err = r.err,
                                !.data = [txdata.data EXCEPT !.Txs = r.Txs],
                                !.before = txdata.data.Txs,
                                !.bytes = <<>>, !.stream = txs, !.first = 0]
    /\ DataStep

NextData ==
    \/ NewZeroData
    \/ NewSubtreeDataCall
    \/ \E txs \in TxStreams(MaxTxs) : NewSubtreeDataFromBytesCall(txs)
    \/ \E tx \in DataTxs : \E index \in IndexArgs(txdata.subtree) : AddTx(tx, index)
    \/ DataSerializeCall
    \/ \E txs \in TxStreams(2) :
          \E startIdx \in 0..Length(txdata.subtree) :
              \E endIdx \in startIdx..Length(txdata.subtree) :
                  ReadTransactionsFromReaderCall(txs, startIdx, endIdx)

SpecData == DataInit /\ [][NextData]_vars

\* ------------------------------------------------- the TxInpoints at work
\* An input is the hash of the parent transaction and the index of the
\* output it spends.
Input(hash, index) == [hash |-> hash, index |-> index]

\* the inputs a run works with: two parents, an index of one byte and one
\* of two bytes
InputArgs == { Input(h, i) : h \in {<<1>>, <<2>>}, i \in {0, 258} }

InputVectors == UNION { [1..n -> InputArgs] : n \in 0..MaxInputs }

\* TxInpoints{}
ZeroTxInpoints == [ParentTxHashes |-> <<>>, Idxs |-> <<>>, nrInpoints |-> 0]

\* slices.Index: the first position (from 0) of x in s, or -1
SlicesIndex(s, x) ==
    IF \E k \in 1..Len(s) : s[k] = x
    THEN (CHOOSE k \in 1..Len(s) : s[k] = x /\ \A j \in 1..(k - 1) : s[j] # x) - 1
    ELSE -1

\* variant: every input opens a parent of its own
RECURSIVE addTxNoIndex(_, _)
addTxNoIndex(p, inputs) ==
    IF inputs = <<>> THEN p
    ELSE addTxNoIndex(
            [ParentTxHashes |-> Append(p.ParentTxHashes, Head(inputs).hash),
             Idxs |-> Append(p.Idxs, <<Head(inputs).index>>),
             nrInpoints |-> p.nrInpoints + 1],
            Tail(inputs))

RECURSIVE addTx(_, _)
addTx(p, inputs) ==
    IF inputs = <<>> THEN p
    ELSE LET hash == Head(inputs).hash
             index == SlicesIndex(p.ParentTxHashes, hash)
         IN  addTx(IF index # -1
                   THEN [p EXCEPT !.Idxs[index + 1] = Append(@, Head(inputs).index),
                                  !.nrInpoints = @ + 1]
                   ELSE [ParentTxHashes |-> Append(p.ParentTxHashes, hash),
                         Idxs |-> Append(p.Idxs, <<Head(inputs).index>>),
                         nrInpoints |-> p.nrInpoints + 1],
                   Tail(inputs))

NewTxInpointsFromInputs(inputs) == addTx(ZeroTxInpoints, inputs)

\* NewTxInpoints() differs from TxInpoints{} in the capacity of its slices
NewTxInpointsFromTx(inputs) == addTx(ZeroTxInpoints, inputs)

GetTxInpoints(p) ==
    Flatten([i \in 1..Len(p.ParentTxHashes) |->
                [j \in 1..Len(p.Idxs[i]) |-> Input(p.ParentTxHashes[i], p.Idxs[i][j])]])

\* the sequences of a run are shorter than MaxUint32, from where on len32
\* gives another number than the length
len32(b) == Len(b)

PutUint32(x) == PutUintLE(x, 4)

Uint32(b) == Uint64(b)

IdxsBytes(indexes) ==
    PutUint32(len32(indexes)) \o Flatten([j \in 1..Len(indexes) |-> PutUint32(indexes[j])])

TxInpointsSerialize(p) ==
    IF Len(p.ParentTxHashes) # Len(p.Idxs)
    THEN [err |-> "parent tx hashes and indexes length mismatch", bytes |-> <<>>]
    ELSE [err |-> "",
          bytes |-> PutUint32(len32(p.ParentTxHashes))
                    \o Flatten([i \in 1..Len(p.ParentTxHashes) |-> HashBytes(p.ParentTxHashes[i])])
                    \o Flatten([i \in 1..Len(p.Idxs) |-> IdxsBytes(p.Idxs[i])])]

\* variant: a read that finds fewer than k bytes leaves the rest of the
\* buffer zero and reports no error
ReadFullAtShort(b, pos, k) ==
    [err |-> "",
     p |-> [i \in 1..k |-> IF pos + i <= Len(b) THEN b[pos + i] ELSE 0],
     pos |-> Min(pos + k, Len(b))]

\* io.ReadFull of k bytes at position pos of the bytes b
ReadFullAt(b, pos, k) ==
    IF Len(b) - pos < k THEN [err |-> "EOF", p |-> <<>>, pos |-> Len(b)]
    ELSE [err |-> "", p |-> SubSeq(b, pos + 1, pos + k), pos |-> pos + k]

\* make of n elements, the first of them those already read
MakeRead(read, n, zero) == [i \in 1..n |-> IF i <= Len(read) THEN read[i] ELSE zero]

\* the loop that reads the parent hashes
RECURSIVE readParentTxHashes(_, _, _, _)
readParentTxHashes(b, pos, hashes, left) ==
    IF left = 0 THEN [err |-> "", hashes |-> hashes, pos |-> pos]
    ELSE LET r == ReadFullAt(b, pos, HashSize) IN
         IF r.err # ""
         THEN [err |-> "unable to read parent tx hash", hashes |-> hashes, pos |-> r.pos]
         ELSE readParentTxHashes(b, r.pos, Append(hashes, HashFromBytes(r.p)), left - 1)

\* the loop that reads the indexes of one parent
RECURSIVE readIndexes(_, _, _, _)
readIndexes(b, pos, indexes, left) ==
    IF left = 0 THEN [err |-> "", indexes |-> indexes, pos |-> pos]
    ELSE LET r == ReadFullAt(b, pos, 4) IN
         IF r.err # ""
         THEN [err |-> "unable to read parent index", indexes |-> indexes, pos |-> r.pos]
         ELSE readIndexes(b, r.pos, Append(indexes, Uint32(r.p)), left - 1)

\* the loop over the parents that reads their indexes
RECURSIVE readIdxs(_, _, _, _)
readIdxs(b, pos, idxs, left) ==
    IF left = 0 THEN [err |-> "", idxs |-> idxs, pos |-> pos]
    ELSE LET r == ReadFullAt(b, pos, 4) IN
         IF r.err # ""
         THEN [err |-> "unable to read number of parent indexes", idxs |-> idxs, pos |-> r.pos]
         ELSE LET x == readIndexes(b, r.pos, <<>>, Uint32(r.p)) IN
              IF x.err # ""
              THEN [err |-> x.err, pos |-> x.pos,
                    idxs |-> Append(idxs, MakeRead(x.indexes, Uint32(r.p), 0))]
              ELSE readIdxs(b, x.pos, Append(idxs, x.indexes), left - 1)

\* the TxInpoints and the error NewTxInpointsFromBytes returns
NewTxInpointsFromBytes(b) ==
    LET r == ReadFullAt(b, 0, 4) IN
    IF r.err # "" THEN [err |-> "unable to read number of parent inpoints", p |-> ZeroTxInpoints]
    ELSE IF Uint32(r.p) = 0 THEN [err |-> "", p |-> ZeroTxInpoints]
    ELSE LET h == readParentTxHashes(b, r.pos, <<>>, Uint32(r.p)) IN
         IF h.err # ""
         THEN [err |-> h.err,
               p |-> [ParentTxHashes |-> MakeRead(h.hashes, Uint32(r.p),
                                                  HashFromBytes([i \in 1..HashSize |-> 0])),
                      Idxs |-> MakeRead(<<>>, Uint32(r.p), <<>>),
                      nrInpoints |-> Uint32(r.p)]]
         ELSE LET x == readIdxs(b, h.pos, <<>>, Uint32(r.p)) IN
              [err |-> x.err,
               p |-> [ParentTxHashes |-> h.hashes,
                      Idxs |-> MakeRead(x.idxs, Uint32(r.p), <<>>),
                      nrInpoints |-> Uint32(r.p)]]

\* The state of a run: the inputs given, the TxInpoints made of them, the
\* last call, what Serialize returned, and what a decoder made of the first
\* cut bytes of it.
NoInpoints ==
    [op |-> "", inputs |-> <<>>, p |-> ZeroTxInpoints, err |-> "", bytes |-> <<>>,
     cut |-> 0, q |-> ZeroTxInpoints, qerr |-> ""]

InpointsInit ==
    /\ inpoints = NoInpoints
    /\ trees = [t \in TreeIds |-> ZeroSubtree]
    /\ live = {}
    /\ call = [op |-> "", tree |-> "orig"]
    /\ ret = NoRet
    /\ nOps = 0
    /\ CodecIdle /\ ProofIdle /\ BuilderIdle /\ MmapIdle
    /\ BackingIdle /\ DataIdle /\ ConcIdle

InpointsStep == UNCHANGED <<treeVars, codecVars, proof, builder, mmapVars, backing, txdata, conc>>

NewTxInpointsFromInputsCall(inputs) ==
    /\ inpoints.op = ""
    /\ inpoints' = [NoInpoints EXCEPT !.op = "NewTxInpointsFromInputs", !.inputs = inputs,
                                      !.p = NewTxInpointsFromInputs(inputs)]
    /\ InpointsStep

NewTxInpointsFromTxCall(inputs) ==
    /\ inpoints.op = ""
    /\ inpoints' = [NoInpoints EXCEPT !.op = "NewTxInpointsFromTx", !.inputs = inputs,
                                      !.p = NewTxInpointsFromTx(inputs)]
    /\ InpointsStep

\* the caller cuts the exported Idxs short
SetIdxs ==
    /\ inpoints.op \in {"NewTxInpointsFromInputs", "NewTxInpointsFromTx"}
    /\ inpoints.p.Idxs # <<>>
    /\ inpoints' = [inpoints EXCEPT !.op = "SetIdxs",
                                    !.p.Idxs = SubSeq(@, 1, Len(@) - 1)]
    /\ InpointsStep

TxInpointsSerializeCall ==
    /\ inpoints.op \in {"NewTxInpointsFromInputs", "NewTxInpointsFromTx", "SetIdxs"}
    /\ inpoints' = [inpoints EXCEPT !.op = "Serialize",
                                    !.err = TxInpointsSerialize(inpoints.p).err,
                                    !.bytes = TxInpointsSerialize(inpoints.p).bytes]
    /\ InpointsStep

NewTxInpointsFromBytesCall(cut) ==
    /\ inpoints.op = "Serialize"
    /\ inpoints.err = ""
    /\ inpoints' = [inpoints EXCEPT !.op = "NewTxInpointsFromBytes", !.cut = cut,
                        !.q = NewTxInpointsFromBytes(SubSeq(inpoints.bytes, 1, cut)).p,
                        !.qerr = NewTxInpointsFromBytes(SubSeq(inpoints.bytes, 1, cut)).err]
    /\ InpointsStep

NextInpoints ==
    \/ \E inputs \in InputVectors : NewTxInpointsFromInputsCall(inputs)
    \/ \E inputs \in InputVectors : NewTxInpointsFromTxCall(inputs)
    \/ SetIdxs
    \/ TxInpointsSerializeCall
    \/ \E cut \in 0..Len(inpoints.bytes) : NewTxInpointsFromBytesCall(cut)

SpecInpoints == InpointsInit /\ [][NextInpoints]_vars

\* --------------------------------------------- one subtree, two goroutines
\* Each goroutine makes one call on the shared subtree. A call is cut into
\* the steps between which another goroutine can run: taking and releasing
\* st.mu, and every access to a field of the subtree made without it.
Goroutines == {"g1", "g2"}

\* a goroutine: the call it makes, where it is in it, its arguments, what it
\* has computed (root), what it returned, the fields it touched without
\* holding st.mu, and the node sequences the subtree had during the call
NoGoroutine ==
    [pc |-> "idle", op |-> "", node |-> SubtreeNode(NilHash, 0, 0), index |-> 0,
     hash |-> NilHash, root |-> NilHash, err |-> "", ret |-> 0, retHash |-> NilHash,
     bare |-> {}, seen |-> {}]

\* sync.RWMutex: the goroutine that holds it for writing, those that hold
\* it for reading
FreeMutex == [writer |-> "", readers |-> {}]

\* the subtrees the goroutines are started on: NewTree(1) with no, one or
\* two leaves added
ConcSubtrees ==
    LET n1 == SubtreeNode(<<1>>, 1, 2)
        n2 == SubtreeNode(<<2>>, 2, 4)
    IN  { NewTree(1),
          AddSubtreeNodeResult(NewTree(1), n1),
          AddSubtreeNodeResult(AddSubtreeNodeResult(NewTree(1), n1), n2) }

ConcInit ==
    /\ \E st \in ConcSubtrees :
          conc = [st |-> st, mu |-> FreeMutex, g |-> [g \in Goroutines |-> NoGoroutine],
                  builds |-> 0, fatal |-> FALSE]
    /\ trees = [t \in TreeIds |-> ZeroSubtree]
    /\ live = {}
    /\ call = [op |-> "", tree |-> "orig"]
    /\ ret = NoRet
    /\ nOps = 0
    /\ CodecIdle /\ ProofIdle /\ BuilderIdle /\ MmapIdle
    /\ BackingIdle /\ DataIdle /\ InpointsIdle

ConcStep == UNCHANGED <<treeVars, codecVars, proof, builder, mmapVars, backing, txdata, inpoints>>

At(g, pc) == ~conc.fatal /\ conc.g[g].pc = pc

Holds(g) == conc.mu.writer = g \/ g \in conc.mu.readers

\* the field a step touches, when the goroutine does not hold st.mu
Bare(g, field) == IF Holds(g) THEN conc.g[g].bare ELSE conc.g[g].bare \cup {field}

\* another goroutine is between Lock and Unlock, writing the index map
MapWriter(g) ==
    \E w \in Goroutines \ {g} :
        /\ conc.g[w].pc \in {"add_body", "rm_body", "ni_make", "ni_fill"}
        /\ conc.st.hasNodeIndex \/ conc.g[w].pc = "ni_make"

\* the goroutines of running NodeIndex calls see the nodes change
SeenAfter(g, nodes) ==
    [x \in Goroutines |->
        IF x # g /\ conc.g[x].op = "NodeIndex" /\ conc.g[x].pc # "done"
        THEN [conc.g[x] EXCEPT !.seen = @ \cup {nodes}]
        ELSE conc.g[x]]

\* st.mu.Lock()
muLock(g, pc, next) ==
    /\ At(g, pc)
    /\ conc.mu = FreeMutex
    /\ conc' = [conc EXCEPT !.mu.writer = g, !.g[g].pc = next]
    /\ ConcStep

\* st.mu.Unlock(), the last step of the call
muUnlock(g, pc, next) ==
    /\ At(g, pc)
    /\ conc' = [conc EXCEPT !.mu.writer = "", !.g[g].pc = next]
    /\ ConcStep

\* st.mu.RLock()
muRLock(g, pc, next) ==
    /\ At(g, pc)
    /\ conc.mu.writer = ""
    /\ conc' = [conc EXCEPT !.mu.readers = @ \cup {g}, !.g[g].pc = next]
    /\ ConcStep

\* a goroutine starts a call
Go(g, op, first, node, index, hash) ==
    /\ At(g, "idle")
    /\ conc' = [conc EXCEPT !.g[g] = [NoGoroutine EXCEPT !.pc = first, !.op = op,
                                         !.node = node, !.index = index, !.hash = hash,
                                         !.seen = IF op = "NodeIndex"
                                                  THEN {conc.st.Nodes} ELSE {}]]
    /\ ConcStep

\* Length: the read and the RUnlock
ConcLength(g) ==
    /\ At(g, "len_read")
    /\ conc' = [conc EXCEPT !.mu.readers = @ \ {g},
                            !.g[g].pc = "done",
                            !.g[g].bare = Bare(g, "Nodes"),
                            !.g[g].ret = Length(conc.st)]
    /\ ConcStep

\* IsComplete: the read and the RUnlock
ConcIsComplete(g) ==
    /\ At(g, "ic_read")
    /\ conc' = [conc EXCEPT !.mu.readers = @ \ {g},
                            !.g[g].pc = "done",
                            !.g[g].bare = Bare(g, "Nodes"),
                            !.g[g].ret = IF IsComplete(conc.st) THEN 1 ELSE 0]
    /\ ConcStep

\* AddSubtreeNode between Lock and the deferred Unlock
ConcAddSubtreeNode(g) ==
    /\ At(g, "add_body")
    /\ LET after == AddSubtreeNodeResult(conc.st, conc.g[g].node) IN
       conc' = [conc EXCEPT
                  !.st = after,
                  !.g = [SeenAfter(g, after.Nodes) EXCEPT
                            ![g].pc = "add_unlock",
                            ![g].bare = Bare(g, "Nodes"),
                            ![g].err = AddNodeErr(conc.st, conc.g[g].node.Hash)]]
    /\ ConcStep

\* RemoveNodeAtIndex between Lock and the deferred Unlock
ConcRemoveNodeAtIndex(g) ==
    /\ At(g, "rm_body")
    /\ LET after == RemoveNodeAtIndexResult(conc.st, conc.g[g].index) IN
       conc' = [conc EXCEPT
                  !.st = after,
                  !.g = [SeenAfter(g, after.Nodes) EXCEPT
                            ![g].pc = "rm_unlock",
                            ![g].bare = Bare(g, "Nodes"),
                            ![g].err = RemoveNodeAtIndexErr(conc.st, conc.g[g].index)]]
    /\ ConcStep

\* RootHash: if st.rootHash != nil { return st.rootHash }
RootHashCheck(g) ==
    /\ At(g, "rh_check")
    /\ conc' = [conc EXCEPT
                  !.g[g].pc = IF conc.st.rootHash # NilHash THEN "done" ELSE "rh_rlock",
                  !.g[g].bare = Bare(g, "rootHash"),
                  !.g[g].retHash = conc.st.rootHash]
    /\ ConcStep

\* RootHash: if st.Length() == 0 { return nil }, the read and the RUnlock
RootHashLength(g) ==
    /\ At(g, "rh_len")
    /\ conc' = [conc EXCEPT
                  !.mu.readers = @ \ {g},
                  !.g[g].pc = IF Length(conc.st) = 0 THEN "done" ELSE "rh_build"]
    /\ ConcStep

\* RootHash: BuildMerkleTreeStoreFromBytes(st.Nodes) and the last element
\* of the store. The nodes are read without st.mu; of a subtree emptied
\* since Length the store is empty and its last element a run-time panic.
RootHashBuild(g) ==
    /\ At(g, "rh_build")
    /\ conc' = IF conc.st.Nodes = <<>>
               THEN [conc EXCEPT !.fatal = TRUE,
                                 !.g[g].pc = "panic",
                                 !.g[g].bare = Bare(g, "Nodes")]
               ELSE [conc EXCEPT
                       !.g[g].pc = "rh_store",
                       !.g[g].bare = Bare(g, "Nodes"),
                       !.g[g].root = Last(BuildMerkleTreeStoreFromBytes(conc.st.Nodes))]
    /\ ConcStep

\* RootHash: st.rootHash, _ = chainhash.NewHash(...); return st.rootHash
RootHashStore(g) ==
    /\ At(g, "rh_store")
    /\ conc' = [conc EXCEPT
                  !.st.rootHash = conc.g[g].root,
                  !.g[g].pc = "done",
                  !.g[g].bare = Bare(g, "rootHash"),
                  !.g[g].retHash = conc.g[g].root]
    /\ ConcStep

\* NodeIndex: if st.nodeIndex == nil
NodeIndexCheck(g) ==
    /\ At(g, "ni_check")
    /\ conc' = [conc EXCEPT
                  !.g[g].pc = IF conc.st.hasNodeIndex THEN "ni_lookup" ELSE "ni_lock",
                  !.g[g].bare = Bare(g, "nodeIndex")]
    /\ ConcStep

\* NodeIndex: st.nodeIndex = make(map[chainhash.Hash]int, len(st.Nodes))
NodeIndexMake(g) ==
    /\ At(g, "ni_make")
    /\ conc' = [conc EXCEPT
                  !.st.hasNodeIndex = TRUE,
                  !.st.nodeIndex = EmptyMap,
                  !.builds = @ + 1,
                  !.g[g].pc = "ni_fill",
                  !.g[g].bare = Bare(g, "nodeIndex")]
    /\ ConcStep

\* NodeIndex: for idx, node := range st.Nodes { st.nodeIndex[node.Hash] = idx }
NodeIndexFill(g) ==
    /\ At(g, "ni_fill")
    /\ conc' = [conc EXCEPT
                  !.st.nodeIndex = BuildNodeIndex(conc.st.Nodes),
                  !.g[g].pc = "ni_unlock",
                  !.g[g].bare = Bare(g, "nodeIndex")]
    /\ ConcStep

\* NodeIndex: nodeIndex, ok := st.nodeIndex[hash], read without st.mu
NodeIndexLookup(g) ==
    /\ At(g, "ni_lookup")
    /\ conc' = [conc EXCEPT
                  !.g[g].pc = "done",
                  !.g[g].bare = Bare(g, "nodeIndex"),
                  !.g[g].ret = IF conc.g[g].hash \in DOMAIN conc.st.nodeIndex
                               THEN conc.st.nodeIndex[conc.g[g].hash] ELSE -1]
    /\ ConcStep

\* NodeIndex: the lookup while another goroutine writes the map is a data
\* race, which the runtime may end with "fatal error: concurrent map read
\* and map write"
NodeIndexFatal(g) ==
    /\ At(g, "ni_lookup")
    /\ MapWriter(g)
    /\ conc' = [conc EXCEPT !.fatal = TRUE, !.g[g].bare = Bare(g, "nodeIndex")]
    /\ ConcStep

NextConc ==
    \E g \in Goroutines :
        \/ Go(g, "Length", "len_rlock", NoGoroutine.node, 0, NilHash)
        \/ Go(g, "IsComplete", "ic_rlock", NoGoroutine.node, 0, NilHash)
        \/ Go(g, "RootHash", "rh_check", NoGoroutine.node, 0, NilHash)
        \/ \E n \in LeafArgs : Go(g, "AddSubtreeNode", "add_lock", n, 0, NilHash)
        \/ \E i \in {0, 1} : Go(g, "RemoveNodeAtIndex", "rm_lock", NoGoroutine.node, i, NilHash)
        \/ \E h \in LeafHashes : Go(g, "NodeIndex", "ni_check", NoGoroutine.node, 0, h)
        \/ muRLock(g, "len_rlock", "len_read")
        \/ ConcLength(g)
        \/ muRLock(g, "ic_rlock", "ic_read")
        \/ ConcIsComplete(g)
        \/ muLock(g, "add_lock", "add_body")
        \/ ConcAddSubtreeNode(g)
        \/ muUnlock(g, "add_unlock", "done")
        \/ muLock(g, "rm_lock", "rm_body")
        \/ ConcRemoveNodeAtIndex(g)
        \/ muUnlock(g, "rm_unlock", "done")
        \/ RootHashCheck(g)
        \/ muRLock(g, "rh_rlock", "rh_len")
        \/ RootHashLength(g)
        \/ RootHashBuild(g)
        \/ RootHashStore(g)
        \/ NodeIndexCheck(g)
        \/ muLock(g, "ni_lock", "ni_make")
        \/ NodeIndexMake(g)
        \/ NodeIndexFill(g)
        \/ muUnlock(g, "ni_unlock", "ni_lookup")
        \/ NodeIndexLookup(g)
        \/ NodeIndexFatal(g)

SpecConc == ConcInit /\ [][NextConc]_vars

\* ==================================================================== claims
RECURSIVE SumFee(_)
SumFee(nodes) == IF nodes = <<>> THEN 0 ELSE nodes[1].Fee + SumFee(Tail(nodes))

RECURSIVE SumSize(_)
SumSize(nodes) == IF nodes = <<>> THEN 0 ELSE nodes[1].SizeInBytes + SumSize(Tail(nodes))

DistinctHashes(nodes) ==
    \A i, j \in 1..Len(nodes) : nodes[i].Hash = nodes[j].Hash => i = j

NoDuplicates(s) == \A i, j \in 1..Len(s) : s[i] = s[j] => i = j

MerkleRoot(nodes) == Last(BuildMerkleTreeStoreFromBytes(nodes))

Capacity(st) == Pow2(st.Height)

\* C1: the cached root of every subtree is absent or the Merkle root of its
\* current nodes; RootHash() gives nil on an empty subtree and otherwise the
\* last element of BuildMerkleTreeStoreFromBytes(Nodes), and the value a
\* RootHash or ReplaceRootNode call just returned is that root.
C1_RootCacheCoherent ==
    /\ \A t \in live :
          LET st == trees[t] IN
          /\ st.rootHash # NilHash =>
                Len(st.Nodes) > 0 /\ st.rootHash = MerkleRoot(st.Nodes)
          /\ RootHashResult(st).rootHash =
                (IF Len(st.Nodes) = 0 THEN NilHash ELSE MerkleRoot(st.Nodes))
    /\ call.op \in {"RootHash", "ReplaceRootNode"} =>
          ret.hash = (IF Len(trees[call.tree].Nodes) = 0 THEN NilHash
                      ELSE MerkleRoot(trees[call.tree].Nodes))

\* RootHash has just been answered on a two-leaf subtree and is now cached
C1_Witness ==
    /\ call.op = "RootHash"
    /\ Len(trees[call.tree].Nodes) = 2
    /\ ret.hash = MerkleRoot(trees[call.tree].Nodes)
    /\ trees[call.tree].rootHash = ret.hash

\* C2: with pairwise distinct leaf hashes, NodeIndex(h) is i exactly when
\* Nodes[i].Hash = h and -1 exactly when h is not in Nodes.
C2_NodeIndexCoherent ==
    \A t \in live :
        LET st == trees[t] IN
        DistinctHashes(st.Nodes) =>
            \A h \in Hashes :
                /\ \A i \in 1..Len(st.Nodes) :
                      st.Nodes[i].Hash = h => NodeIndexValue(st, h) = i - 1
                /\ ~HasHash(st.Nodes, h) => NodeIndexValue(st, h) = -1

\* C3: Fees is the sum of the fees of the current nodes and SizeInBytes the
\* sum of their sizes (as numbers, without wrap-around).
C3_AggregatesAreSums ==
    \A t \in live :
        /\ trees[t].Fees = SumFee(trees[t].Nodes)
        /\ trees[t].SizeInBytes = SumSize(trees[t].Nodes)

\* C4: a successful AddNode / AddSubtreeNode appends the leaf and adds its fee
\* and size to the aggregates; a successful RemoveNodeAtIndex(i) removes
\* exactly Nodes[i], keeps the order of the others and subtracts the fee and
\* size of the removed element (unsigned arithmetic of the aggregates).
C4_AddPost(t, n) ==
    ret'.err = "" =>
        /\ trees'[t].Nodes = trees[t].Nodes \o <<n>>
        /\ trees'[t].Fees = U64(trees[t].Fees + n.Fee)
        /\ trees'[t].SizeInBytes = U64(trees[t].SizeInBytes + n.SizeInBytes)

C4_RemovePost(t, index) ==
    ret'.err = "" =>
        LET old == trees[t].Nodes IN
        /\ trees'[t].Nodes = SubSeq(old, 1, index) \o SubSeq(old, index + 2, Len(old))
        /\ trees'[t].Fees = U64(trees[t].Fees - old[index + 1].Fee)
        /\ trees'[t].SizeInBytes = U64(trees[t].SizeInBytes - old[index + 1].SizeInBytes)

C4_AddRemoveDelta ==
    [][ /\ \A t \in TreeIds, n \in AddArgs :
            /\ AddNode(t, n) => C4_AddPost(t, n)
            /\ AddSubtreeNode(t, n) => C4_AddPost(t, n)
        /\ \A t \in TreeIds : \A index \in IndexArgs(trees[t]) :
            RemoveNodeAtIndex(t, index) => C4_RemovePost(t, index) ]_vars

\* a leaf has just been removed from a subtree that still holds a leaf
C4_Witness ==
    /\ call.op = "RemoveNodeAtIndex"
    /\ ret.err = ""
    /\ Len(trees[call.tree].Nodes) = 1
    /\ trees[call.tree].Fees = SumFee(trees[call.tree].Nodes)
    /\ trees[call.tree].Fees > 0

\* C5: every hash in ConflictingNodes is the hash of a current node, and
\* ConflictingNodes holds no hash twice.
C5_ConflictingInNodes ==
    \A t \in live :
        /\ \A i \in 1..Len(trees[t].ConflictingNodes) :
              HasHash(trees[t].Nodes, trees[t].ConflictingNodes[i])
        /\ NoDuplicates(trees[t].ConflictingNodes)

\* C6: AddNode and AddSubtreeNode fail exactly when the subtree holds
\* 2^Height leaves (full) or the hash is the coinbase placeholder, and a
\* failed call changes nothing of the subtree.
C6_AddPost(t, h) ==
    LET st == trees[t] IN
    /\ ret'.err # "" <=> (Len(st.Nodes) = Capacity(st) \/ h = CoinbasePlaceholder)
    /\ ret'.err = "full" <=> Len(st.Nodes) = Capacity(st)
    /\ ret'.err # "" => trees' = trees

C7_CapacityKept ==
    \A t \in live :
        LET st == trees[t] IN
        /\ Len(st.Nodes) <= Capacity(st)
        /\ Size(st) = Capacity(st)
        /\ IsComplete(st) <=> Len(st.Nodes) = Capacity(st)
        /\ IsComplete(st) <=> AddNodeErr(st, <<1>>) = "full"

\* C8: RemoveNodeAtIndex(i) with i outside 0 <= i < Len(Nodes) returns the
\* index-out-of-range error (no panic) and changes nothing of the subtree.
C8_RemoveOutOfRange ==
    [][ \A t \in TreeIds : \A index \in IndexArgs(trees[t]) :
            (RemoveNodeAtIndex(t, index)
               /\ (index < 0 \/ index >= Len(trees[t].Nodes)))
            => (ret'.err = "range" /\ trees' = trees) ]_vars

\* C9: RootHashWithReplaceRootNode leaves the receiver (and the other
\* subtree) unchanged and returns the Merkle root of the receiver's leaves
\* with element 0 replaced by the given leaf (of the single given leaf when
\* the receiver is empty).
C9_Replaced(nodes, n) ==
    IF Len(nodes) = 0 THEN <<n>> ELSE <<n>> \o Tail(nodes)

C9_ReplaceRootIsPure ==
    [][ \A t \in TreeIds, n \in LeafArgs :
            RootHashWithReplaceRootNode(t, n) =>
                /\ trees' = trees
                /\ ret'.hash = MerkleRoot(C9_Replaced(trees[t].Nodes, n))
                /\ ret'.err = "" ]_vars

\* the root with a replaced element 0 has just been computed on a subtree of
\* two leaves, and it differs from the root of the subtree itself
C9_Witness ==
    /\ call.op = "RootHashWithReplaceRootNode"
    /\ Len(trees[call.tree].Nodes) = 2
    /\ ret.hash # NilHash
    /\ ret.hash # MerkleRoot(trees[call.tree].Nodes)

\* C10: Duplicate() returns a subtree with equal Height, Size(), Length(),
\* Fees, SizeInBytes, nodes, ConflictingNodes and RootHash(), and a later
\* call on one of the two subtrees leaves the other one unchanged.
C10_DuplicateEqual ==
    [][ /\ \A t \in TreeIds :
            DuplicateCall(t) =>
                LET o == trees[t]
                    c == trees'["copy"] IN
                /\ c.Height = o.Height
                /\ Size(c) = Size(o)
                /\ Length(c) = Length(o)
                /\ c.Fees = o.Fees
                /\ c.SizeInBytes = o.SizeInBytes
                /\ c.Nodes = o.Nodes
                /\ c.ConflictingNodes = o.ConflictingNodes
                /\ RootHashResult(c).rootHash = RootHashResult(o).rootHash
        /\ \A t \in TreeIds :
            (call'.tree = t /\ call'.op # "Duplicate") =>
                \A u \in TreeIds \ {t} : trees'[u] = trees[u] ]_vars

\* C11: the full decoder reads back what Serialize wrote of a non-empty
\* subtree: it succeeds, the decoded subtree has the same root hash, Fees,
\* SizeInBytes, nodes and ConflictingNodes, and serialising it again gives
\* the same bytes, 32 + 24 + 48 * len(Nodes) + 8 + 32 * len(ConflictingNodes)
\* of them.
C11_RoundTrip ==
    (decoded.op = "NewSubtreeFromBytes" /\ ~decoded.strict) =>
        LET st == trees["orig"]
            d == decoded.st IN
        /\ decoded.err = ""
        /\ RootHashResult(d).rootHash = RootHashResult(st).rootHash
        /\ d.Fees = st.Fees
        /\ d.SizeInBytes = st.SizeInBytes
        /\ d.Nodes = st.Nodes
        /\ d.ConflictingNodes = st.ConflictingNodes
        /\ SerializeErr(d) = ""
        /\ SerializeBytes(d) = wire
        /\ Len(wire) = 32 + 24 + 48 * Len(st.Nodes) + 8 + 32 * Len(st.ConflictingNodes)

\* C12: Serialize of a subtree without leaves returns the empty-nodes error
\* and no bytes (no panic), and bytes that Serialize did return never start
\* with a zero root hash.
C12_SerializeEmptyIsError ==
    call.op = "Serialize" =>
        /\ Len(trees[call.tree].Nodes) = 0 => (ret.err = "EmptyNodes" /\ wire = NoWire)
        /\ wire # NoWire => HashFromBytes(SubSeq(wire, 1, HashSize)) # ZeroHash

\* C13: the full decoder and the conflicting-only decoder return an error
\* on every strict prefix of a serialisation, the empty one included.
C13_PrefixIsError ==
    (decoded.op \in {"NewSubtreeFromBytes", "DeserializeSubtreeConflictingFromReader"}
       /\ decoded.strict) => decoded.err # ""

\* the conflicting-only decoder has just refused a serialisation that was cut
\* inside its list of conflicting hashes
C13_Witness ==
    /\ decoded.op = "DeserializeSubtreeConflictingFromReader"
    /\ decoded.strict
    /\ decoded.err = "unable to read conflicting node"
    /\ Len(trees["orig"].ConflictingNodes) = 1

\* C14: of a whole serialisation, DeserializeNodesFromReader returns the
\* bytes SerializeNodes gives for the subtree, and
\* DeserializeSubtreeConflictingFromReader returns the ConflictingNodes the
\* full decoder returns.
C14_PartialAgree ==
    /\ (decoded.op = "DeserializeNodesFromReader" /\ ~decoded.strict) =>
          /\ decoded.err = ""
          /\ decoded.bytes = SerializeNodes(trees["orig"])
    /\ (decoded.op = "DeserializeSubtreeConflictingFromReader" /\ ~decoded.strict) =>
          /\ decoded.err = ""
          /\ NewSubtreeFromBytes(wire).err = ""
          /\ decoded.hashes = NewSubtreeFromBytes(wire).st.ConflictingNodes

\* C15: a proof GetMerkleProof(i) returns for a subtree of two leaves or
\* more, folded from Nodes[i].Hash upwards (the running hash to the left at
\* an even index, to the right at an odd one, the index halved layer by
\* layer), gives RootHash().
RECURSIVE C15_Fold(_, _, _)
C15_Fold(p, h, index) ==
    IF p = <<>> THEN h
    ELSE C15_Fold(Tail(p),
                  IF index % 2 = 0 THEN Hash256(h, p[1]) ELSE Hash256(p[1], h),
                  index \div 2)

C15_ProofFoldsToRoot ==
    (call.op = "GetMerkleProof" /\ ret.err = "" /\ Len(trees[call.tree].Nodes) >= 2) =>
        C15_Fold(proof, trees[call.tree].Nodes[ret.index + 1].Hash, ret.index)
            = RootHashResult(trees[call.tree]).rootHash

\* the proof of leaf 4 of six leaves: its second element stands in for the
\* zero sibling of the node above leaves 4 and 5
C15_Witness ==
    /\ call.op = "GetMerkleProof"
    /\ ret.err = ""
    /\ ret.index = 4
    /\ Len(trees[call.tree].Nodes) = 6
    /\ Len(proof) = 3
    /\ proof[2] = Hash256(<<5>>, <<6>>)

\* C16: GetMerkleProof(index) returns the index-out-of-range error exactly
\* when index >= len(Nodes), and for 0 <= index < len(Nodes) it returns (no
\* panic) a proof of log2(CeilPowerOfTwo(len(Nodes))) hashes.
C16_ProofTotal ==
    call.op = "GetMerkleProof" =>
        LET n == Len(trees[call.tree].Nodes) IN
        /\ ret.err = "range" <=> ret.index >= n
        /\ (0 <= ret.index /\ ret.index < n) =>
              (ret.err = "" /\ Pow2(Len(proof)) = CeilPowerOfTwo(n))

\* C17: BuildMerkleTreeStoreFromBytes gives the empty array for no leaf, the
\* leaf hash for one leaf, and otherwise N - 1 hashes (N the leaf count
\* rounded up to a power of two), layer after layer from the bottom; slot j
\* of layer k is the zero hash when no leaf lies beneath it, Hash256(L || L)
\* when its right child is zero and Hash256(L || R) otherwise; the last
\* element is the root.
C17_Offset(N, k) == N - N \div Pow2(k - 1)

C17_Child(nodes, store, N, k, c) ==
    IF k = 1 THEN (IF c + 1 <= Len(nodes) THEN nodes[c + 1].Hash ELSE ZeroHash)
    ELSE store[C17_Offset(N, k - 1) + c + 1]

C17_Slot(nodes, store, N, k, j) ==
    LET L == C17_Child(nodes, store, N, k, 2 * j)
        R == C17_Child(nodes, store, N, k, 2 * j + 1)
    IN  IF j * Pow2(k) >= Len(nodes) THEN ZeroHash
        ELSE IF R = ZeroHash THEN Hash256(L, L)
        ELSE Hash256(L, R)

C17_LayoutOf(nodes, store) ==
    LET n == Len(nodes)
        N == CeilPowerOfTwo(n)
    IN  /\ n = 0 => store = <<>>
        /\ n = 1 => store = <<nodes[1].Hash>>
        /\ n >= 2 =>
              /\ Len(store) = N - 1
              /\ \A k \in 1..Log2Ceil(N) : \A j \in 0..(N \div Pow2(k) - 1) :
                    store[C17_Offset(N, k) + j + 1] = C17_Slot(nodes, store, N, k, j)
              /\ C17_Offset(N, Log2Ceil(N)) + 1 = Len(store)

C17_Layout ==
    (builder.phase = "done" /\ ~builder.parallel) =>
        C17_LayoutOf(builder.nodes, builder.store)

\* the flat array of six leaves: seven slots, the last slot of the lowest
\* layer zero, the one before it the hash of leaves 4 and 5
C17_Witness ==
    /\ builder.phase = "done"
    /\ ~builder.parallel
    /\ Len(builder.nodes) = 6
    /\ Len(builder.store) = 7
    /\ builder.store[4] = ZeroHash
    /\ builder.store[3] = Hash256(<<5>>, <<6>>)
    /\ builder.store[6] = Hash256(builder.store[3], builder.store[3])

\* C18: at or above the threshold the array built layer by layer by the
\* workers is the array the sequential builder gives for the same leaves,
\* whatever the number of workers, the ranges and the schedule; and the
\* layer the workers read holds no slot that is still unwritten.
C18_ParallelIsSequential ==
    /\ (builder.phase = "done" /\ builder.parallel) =>
          builder.store = BuildMerkleTreeStoreFromBytes(builder.nodes)
    /\ builder.phase = "work" =>
          \A i \in 1..Len(builder.input) : builder.input[i] # NilHash

\* the workers have built the array of seven leaves
C18_Witness ==
    /\ builder.phase = "done"
    /\ builder.parallel
    /\ Len(builder.nodes) = 7
    /\ Len(builder.store) = 7
    /\ Last(builder.store) = MerkleRoot(builder.nodes)
\* C19: however many Close calls are made on one store, one after another or
\* at once, munmap and os.Remove are each called at most once for it, and
\* exactly once as soon as a Close call has returned; a Close call that is
\* about to return finds the store done, unmapped and its file gone; and a
\* call that did not run the cleanup returns no error.
C19_CloseOnce ==
    /\ \A s \in DOMAIN stores :
          /\ stores[s].munmaps <= 1
          /\ stores[s].removes <= 1
          /\ stores[s].closed => stores[s].munmaps = 1 /\ stores[s].removes = 1
    /\ \A g \in DOMAIN closers :
          closers[g].pc = "return" =>
              /\ stores[closers[g].store].done
              /\ ~stores[closers[g].store].data
              /\ stores[closers[g].store].filePath \notin dir
              /\ stores[closers[g].store].munmaps = 1
              /\ stores[closers[g].store].removes = 1
              /\ ~closers[g].ran => closers[g].err = ""

\* two concurrent Close calls on one store: the first ran the cleanup, its
\* munmap failed and it is about to return the error; the second took the
\* mutex, found done set and is about to unlock
C19_Witness ==
    /\ Len(stores) >= 1
    /\ closers[1].pc = "return" /\ closers[1].store = 1
    /\ closers[1].ran /\ closers[1].err = "munmap failed"
    /\ closers[2].pc = "unlock" /\ closers[2].store = 1
    /\ ~closers[2].ran /\ closers[2].err = ""
    /\ stores[1].mu = 2

Closing(s) == \E g \in DOMAIN closers : closers[g].pc # "idle" /\ closers[g].store = s

\* C20: every file of the directory is the file of a constructed store (a
\* failed construction leaves none); the file of a store on which no Close
\* call is running exists exactly when no Close call on it has returned; and
\* when no Close call is running the number of files is the number of
\* constructed stores that are not closed.
C20_FileCount ==
    /\ dir \subseteq {stores[s].filePath : s \in DOMAIN stores}
    /\ \A s \in DOMAIN stores :
          ~Closing(s) => (stores[s].filePath \in dir <=> ~stores[s].closed)
    /\ (\A s \in DOMAIN stores : ~Closing(s)) =>
          Cardinality(dir) = Cardinality({s \in DOMAIN stores : ~stores[s].closed})

\* one store was constructed and closed, then a construction failed in mmap:
\* no file is in the directory
C20_Witness ==
    /\ call.op = "newFileBackedMmapNodes"
    /\ ret.err = "mmap failed"
    /\ Len(stores) = 1
    /\ stores[1].closed
    /\ \A g \in DOMAIN closers : closers[g].pc = "idle"
    /\ dir = {}

DataStart(nodes) == IF nodes # <<>> /\ nodes[1].Hash = CoinbasePlaceholder THEN 1 ELSE 0

\* what decoding a stream without coinbases has to return: the transactions
\* go to the slots from DataStart on, one after the other
RECURSIVE DataExpectedErr(_, _, _)
DataExpectedErr(nodes, txs, slot) ==
    IF txs = <<>> THEN ""
    ELSE IF slot >= Len(nodes) THEN "ErrTxIndexOutOfBounds"
    ELSE IF Head(txs).id # nodes[slot + 1].Hash THEN "ErrTxHashMismatch"
    ELSE DataExpectedErr(nodes, Tail(txs), slot + 1)

\* C22: after NewSubtreeDataFromBytes succeeded, the filled slots from the
\* start index on are a contiguous run that begins there, the transaction
\* of slot i has the hash of nodes[i], and slot 0 holds a transaction of
\* another hash only when nodes[0] is the placeholder and the transaction is
\* a coinbase that was decoded first; a stream of transactions that are not
\* coinbases fails with ErrTxHashMismatch at the first transaction that does
\* not match its slot, with ErrTxIndexOutOfBounds when it has more
\* transactions than slots, and ends without error otherwise.
C22_DecodedSlots ==
    (txdata # <<>> /\ txdata.op = "NewSubtreeDataFromBytes"
                   /\ txdata.subtree.Nodes # <<>>) =>
        LET nodes == txdata.subtree.Nodes
            txs == txdata.data.Txs
            start == DataStart(nodes)
        IN  /\ txdata.err = "" =>
                /\ \A i \in (start + 1)..Len(txs) :
                      txs[i] # NilTx =>
                          /\ \A j \in (start + 1)..i : txs[j] # NilTx
                          /\ txs[i].id = nodes[i].Hash
                /\ (txs[1] # NilTx /\ txs[1].id # nodes[1].Hash) =>
                      /\ nodes[1].Hash = CoinbasePlaceholder
                      /\ txs[1].coinbase
                      /\ txdata.first = 1
            /\ (\A k \in 1..Len(txdata.stream) : ~txdata.stream[k].coinbase) =>
                  txdata.err = DataExpectedErr(nodes, txdata.stream, start)

\* C23: Serialize of a Data returns ErrCannotSerializeSubtreeNotSet and no
\* bytes when no subtree is bound, ErrSubtreeLengthMismatch and no bytes when
\* a slot from the start index on is empty, and otherwise no error and the
\* bytes of the transactions of the slots from the start index on, in order;
\* it never panics.
C23_SerializeErrors ==
    (txdata # <<>> /\ txdata.op = "Serialize") =>
        LET nodes == txdata.subtree.Nodes
            txs == txdata.data.Txs
            start == DataStart(nodes)
        IN  IF ~txdata.data.bound
            THEN txdata.err = "ErrCannotSerializeSubtreeNotSet" /\ txdata.bytes = <<>>
            ELSE IF \E i \in (start + 1)..Len(nodes) : txs[i] = NilTx
            THEN txdata.err = "ErrSubtreeLengthMismatch" /\ txdata.bytes = <<>>
            ELSE /\ txdata.err = ""
                 /\ txdata.bytes =
                        Flatten([k \in 1..(Len(nodes) - start) |->
                                    SerializeBytesTx(txs[start + k])])

\* C24: AddTx(tx, i) on a bound Data with 0 <= i < len(nodes) stores tx in
\* slot i and returns nil exactly when tx has the hash of nodes[i], or i = 0,
\* tx is a coinbase and nodes[0] is the placeholder; else it returns
\* ErrTxHashMismatch and no slot changes; with i out of range it returns an
\* error, does not panic and no slot changes.
C24_AddTxChecked ==
    (txdata # <<>> /\ txdata.op = "AddTx" /\ txdata.data.bound) =>
        LET nodes == txdata.subtree.Nodes
            i == txdata.index
            tx == txdata.tx
        IN  IF 0 <= i /\ i < Len(nodes)
            THEN IF \/ tx.id = nodes[i + 1].Hash
                    \/ i = 0 /\ tx.coinbase /\ nodes[1].Hash = CoinbasePlaceholder
                 THEN /\ txdata.err = ""
                      /\ txdata.data.Txs = [txdata.before EXCEPT ![i + 1] = tx]
                 ELSE /\ txdata.err = "ErrTxHashMismatch"
                      /\ txdata.data.Txs = txdata.before
            ELSE /\ txdata.err \notin {"", "panic"}
                 /\ txdata.data.Txs = txdata.before

\* C25: a Data bound to a subtree has as many slots as the subtree has
\* nodes, however it was made, and AddTx and ReadTransactionsFromReader
\* leave the number of slots as it was.
C25_SlotsParallelNodes ==
    (txdata # <<>> /\ txdata.made /\ txdata.data.bound) =>
        /\ Len(txdata.data.Txs) = Len(txdata.subtree.Nodes)
        /\ txdata.op \in {"AddTx", "ReadTransactionsFromReader"} =>
              Len(txdata.data.Txs) = Len(txdata.before)

\* how often x occurs in the sequence s
Occurrences(s, x) == Cardinality({k \in 1..Len(s) : s[k] = x})

\* the position of the first input that has the parent hash h
FirstInput(inputs, h) ==
    CHOOSE k \in 1..Len(inputs) :
        inputs[k].hash = h /\ \A j \in 1..(k - 1) : inputs[j].hash # h

\* the output indexes of the inputs that have the parent hash h, in order
RECURSIVE IndexesOf(_, _)
IndexesOf(inputs, h) ==
    IF inputs = <<>> THEN <<>>
    ELSE (IF Head(inputs).hash = h THEN <<Head(inputs).index>> ELSE <<>>)
         \o IndexesOf(Tail(inputs), h)

RECURSIVE SumLen(_)
SumLen(ss) == IF ss = <<>> THEN 0 ELSE Len(Head(ss)) + SumLen(Tail(ss))

C27_InpointsRoundTrip ==
    /\ (inpoints # <<>> /\ inpoints.op = "Serialize") =>
          IF Len(inpoints.p.ParentTxHashes) # Len(inpoints.p.Idxs)
          THEN inpoints.err # "" /\ inpoints.bytes = <<>>
          ELSE /\ inpoints.err = ""
               /\ NewTxInpointsFromBytes(inpoints.bytes).err = ""
               /\ NewTxInpointsFromBytes(inpoints.bytes).p.ParentTxHashes
                     = inpoints.p.ParentTxHashes
               /\ NewTxInpointsFromBytes(inpoints.bytes).p.Idxs = inpoints.p.Idxs
    /\ (inpoints # <<>> /\ inpoints.op = "NewTxInpointsFromBytes") =>
          IF inpoints.cut < Len(inpoints.bytes)
          THEN inpoints.qerr # ""
          ELSE /\ inpoints.qerr = ""
               /\ inpoints.q.ParentTxHashes = inpoints.p.ParentTxHashes
               /\ inpoints.q.Idxs = inpoints.p.Idxs

\* the bytes of a TxInpoints with two parents, one of them with two indexes,
\* were decoded in full
C27_Witness ==
    /\ inpoints # <<>>
    /\ inpoints.op = "NewTxInpointsFromBytes"
    /\ inpoints.cut = Len(inpoints.bytes)
    /\ inpoints.qerr = ""
    /\ inpoints.q.ParentTxHashes = <<<<2>>, <<1>>>>
    /\ inpoints.q.Idxs = << <<258, 0>>, <<258>> >>

\* C28: the coinbase placeholder is never an element of the ConflictingNodes
\* of a subtree, whatever AddCoinbaseNode, AddNode, ReplaceRootNode,
\* RemoveNodeAtIndex and AddConflictingNode calls were made on it.
C28_PlaceholderNotConflicting ==
    \A t \in live :
        \A k \in 1..Len(trees[t].ConflictingNodes) :
            trees[t].ConflictingNodes[k] # CoinbasePlaceholder

\* every goroutine has made its call and the call has returned
AllReturned == \A g \in Goroutines : conc.g[g].pc = "done"

\* C29: once the RootHash, AddSubtreeNode and RemoveNodeAtIndex calls of the
\* goroutines have all returned, the cached root is absent or is the Merkle
\* root of the nodes the subtree has then.
C29_CacheFresh ==
    (conc # <<>> /\ AllReturned
        /\ \A g \in Goroutines :
              conc.g[g].op \in {"RootHash", "AddSubtreeNode", "RemoveNodeAtIndex"}) =>
        \/ conc.st.rootHash = NilHash
        \/ /\ conc.st.Nodes # <<>>
           /\ conc.st.rootHash = Last(BuildMerkleTreeStoreFromBytes(conc.st.Nodes))

\* the positions (from 0) the hash h has in the node sequence, -1 when it
\* has none
Positions(nodes, h) ==
    IF HasHash(nodes, h) THEN {i - 1 : i \in {k \in 1..Len(nodes) : nodes[k].Hash = h}}
    ELSE {-1}

\* C30: while AddSubtreeNode, RemoveNodeAtIndex, NodeIndex, Length and
\* IsComplete calls run concurrently, no call touches the nodes or the index
\* map without holding st.mu, no goroutine is about to read the map while
\* another is writing it, the index map is made once, and a NodeIndex call
\* that has returned gave a position the hash had in the nodes at some point
\* of the call.
C30_LockDiscipline ==
    (conc # <<>> /\ \A g \in Goroutines : conc.g[g].op # "RootHash") =>
        /\ ~conc.fatal
        /\ \A g \in Goroutines : conc.g[g].bare = {}
        /\ \A g \in Goroutines :
              conc.g[g].pc \in {"ni_check", "ni_lookup"} => ~MapWriter(g)
        /\ conc.builds <= 1
        /\ \A g \in Goroutines :
              (conc.g[g].op = "NodeIndex" /\ conc.g[g].pc = "done") =>
                  \E nodes \in conc.g[g].seen :
                      conc.g[g].ret \in Positions(nodes, conc.g[g].hash)

====
